---- MODULE Spec2Model ----
(***************************************************************************)
(* Order / shipment workflow of the CFC order backend (src/main.py and     *)
(* src/sync_service.py), over the relational store they share.             *)
(*                                                                         *)
(* Text values that the code takes apart (order ids, SKUs, SKU prefixes,   *)
(* warehouse names, shipment ids) are sequences of one-character strings.  *)
(* Enumerated text values (statuses, checkpoint names, event types) are    *)
(* strings.  A nullable column of sequence or number type holds NULL       *)
(* (the empty sequence) or Some(v); a nullable string holds None.          *)
(***************************************************************************)
EXTENDS Integers, Sequences, FiniteSets, Bags, TLC

VARIABLES
    orders,             \* table orders: order_id -> row, or NoOrder
    order_line_items,   \* table order_line_items, rows in insertion order
    order_shipments,    \* table order_shipments, rows in insertion order
    order_events,       \* table order_events, a bag of rows
    warehouse_mapping,  \* table warehouse_mapping, rows in insertion order
    now,                \* the value NOW() returns to the next transaction
    response,           \* the last request handled and what it returned
    txn,                \* the reconcile transactions in flight, per worker
    quoting,            \* the shipping calculation in progress
    auto_sync_running,  \* the module-level flag of the poller
    syncs,              \* the sync cycles in progress: poller and manual
    patching            \* the update_shipment transactions in flight, per worker

vars == <<orders, order_line_items, order_shipments, order_events,
          warehouse_mapping, now, response, txn, quoting, auto_sync_running,
          syncs, patching>>

\* what is in progress outside the reconcile transactions
calls == <<quoting, auto_sync_running, syncs, patching>>

store == <<orders, order_line_items, order_shipments, order_events,
           warehouse_mapping>>

-----------------------------------------------------------------------------
(* Bounds of the model *)

\* transactions that write: each reads NOW() at its own instant, 0..MaxNow-1
MaxNow == 3

\* the heaviest shipment the carrier selection is asked about, in lbs
MaxWeight == 140

\* the longest SKU the routing paths are asked about, in characters
MaxSkuLen == 4

\* concurrent reconcile workers
NWorkers == 2

\* checkpoint advances that follow the reconcile of a fresh order
MaxAdvances == 5

-----------------------------------------------------------------------------
(* Values *)

NULL == <<>>
Some(v) == <<v>>
None == "None"

Range(s) == {s[i] : i \in DOMAIN s}

Checkpoints ==
    <<"payment_link_sent", "payment_received", "sent_to_warehouse",
      "warehouse_confirmed", "bol_sent", "is_complete">>

\* the validation list with a name that is no checkpoint let through
unchecked_checkpoints == Range(Checkpoints) \cup {"shipped"}

valid_checkpoints == Range(Checkpoints)

valid_statuses ==
    <<"needs_order", "at_warehouse", "needs_bol", "ready_ship", "shipped",
      "delivered">>

valid_methods == {"LTL", "Pirateship", "Pickup", "BoxTruck", "LiDelivery", None}

\* Python truthiness of an Optional[str]
Truthy(s) == s # None /\ s # ""

\* warehouse names of the default mapping
LI == <<"L", "I">>
DL == <<"D", "L">>
ROC == <<"R", "O", "C">>
GoBravura == <<"G", "o", " ", "B", "r", "a", "v", "u", "r", "a">>
CabinetStone ==
    <<"C", "a", "b", "i", "n", "e", "t", " ", "&", " ", "S", "t", "o", "n", "e">>
DuraStone == <<"D", "u", "r", "a", "S", "t", "o", "n", "e">>

\* a warehouse name an operator can enter, written with a hyphen
CabinetHyphenStone ==
    <<"C", "a", "b", "i", "n", "e", "t", "-", "S", "t", "o", "n", "e">>

\* rows of the default mapping, in the order SCHEMA_SQL inserts them
DefaultMapping ==
    << [sku_prefix |-> <<"G", "S", "P">>, warehouse_name |-> LI],
       [sku_prefix |-> <<"W", "S", "P">>, warehouse_name |-> LI],
       [sku_prefix |-> <<"C", "S">>, warehouse_name |-> DL],
       [sku_prefix |-> <<"B", "C">>, warehouse_name |-> ROC],
       [sku_prefix |-> <<"B", "X">>, warehouse_name |-> GoBravura],
       [sku_prefix |-> <<"S", "I", "V">>, warehouse_name |-> CabinetStone] >>

OrderIds == {<<"7">>, <<"8">>}

NoOrder == [order_id |-> NULL]

-----------------------------------------------------------------------------
(* Text operations *)

\* str.upper() / SQL UPPER() on the characters the model uses
Upper(c) ==
    CASE c = "g" -> "G"
      [] c = "s" -> "S"
      [] c = "p" -> "P"
      [] c = "x" -> "X"
      [] OTHER -> c

UpperS(s) == [i \in DOMAIN s |-> Upper(s[i])]

HasHyphen(s) == \E i \in DOMAIN s : s[i] = "-"

\* str.isdigit() of one character
IsDigit(c) == c \in {"0", "1", "2", "3", "4", "5", "6", "7", "8", "9"}

\* s.split('-')[0]
SplitFirst(s) ==
    IF HasHyphen(s)
    THEN LET i == CHOOSE k \in DOMAIN s :
                     s[k] = "-" /\ \A j \in 1..(k - 1) : s[j] # "-"
         IN SubSeq(s, 1, i - 1)
    ELSE s

IsPrefixAt(s, pat, i) ==
    /\ i + Len(pat) - 1 <= Len(s)
    /\ \A k \in 1..Len(pat) : s[i + k - 1] = pat[k]

\* s.replace(pat, rep): every non-overlapping occurrence, left to right
RECURSIVE ReplaceFrom(_, _, _, _)
ReplaceFrom(s, pat, rep, i) ==
    IF i > Len(s) THEN <<>>
    ELSE IF IsPrefixAt(s, pat, i)
         THEN rep \o ReplaceFrom(s, pat, rep, i + Len(pat))
         ELSE <<s[i]>> \o ReplaceFrom(s, pat, rep, i + 1)

Replace(s, pat, rep) == ReplaceFrom(s, pat, rep, 1)

-----------------------------------------------------------------------------
(* Order snapshots the order source can return *)

\* the reconciler reads final_price, the checkout reads price; the snapshots
\* carry the same amount (whole dollars) in both
Product(code, qty, price) ==
    [product_code |-> code, quantity |-> qty, final_price |-> price,
     price |-> price]

\* two warehouses (LI, Cabinet & Stone)
SnapTwo ==
    [id |-> <<"7">>, customer_name |-> "Acme", gross_total |-> 450,
     order_products |->
        << Product(<<"G", "S", "P", "-", "B", "1">>, 2, 100),
           Product(<<"S", "I", "V", "-", "W", "3">>, 1, 250) >>]

\* one warehouse reached through a lower-case prefix, one SKU with an unknown
\* prefix, one SKU without a hyphen
SnapMixed ==
    [id |-> <<"7">>, customer_name |-> "Acme Inc", gross_total |-> 300,
     order_products |->
        << Product(<<"g", "s", "p", "-", "B", "1">>, 1, 100),
           Product(<<"x", "x", "-", "9">>, 1, 150),
           Product(<<"G", "S", "P", "1">>, 1, 50) >>]

\* one warehouse, another order
SnapOther ==
    [id |-> <<"8">>, customer_name |-> "Bolt", gross_total |-> 100,
     order_products |->
        << Product(<<"W", "S", "P", "-", "1">>, 1, 100) >>]

\* another order: a prefix that only the checkout's table knows, a prefix that
\* no table knows, and a line of quantity 0
SnapStray ==
    [id |-> <<"8">>, customer_name |-> "Bolt", gross_total |-> 200,
     order_products |->
        << Product(<<"R", "W", "-", "1">>, 1, 100),
           Product(<<"x", "x", "-", "9">>, 2, 50),
           Product(<<"G", "S", "P", "-", "B", "1">>, 0, 30) >>]

\* another order, none of whose SKUs resolves to a warehouse: an unknown
\* prefix and a SKU without a hyphen
SnapUnrouted ==
    [id |-> <<"8">>, customer_name |-> "Bolt", gross_total |-> 250,
     order_products |->
        << Product(<<"x", "x", "-", "9">>, 1, 150),
           Product(<<"G", "S", "P", "1">>, 2, 50) >>]

\* two warehouses: two units (60 lb) from one, three units (90 lb) from the
\* other
SnapLight ==
    [id |-> <<"7">>, customer_name |-> "Acme", gross_total |-> 350,
     order_products |->
        << Product(<<"G", "S", "P", "-", "B", "1">>, 2, 100),
           Product(<<"C", "S", "-", "1">>, 3, 50) >>]

\* five warehouses
SnapFive ==
    [id |-> <<"7">>, customer_name |-> "Acme", gross_total |-> 500,
     order_products |->
        << Product(<<"G", "S", "P", "-", "B", "1">>, 1, 100),
           Product(<<"C", "S", "-", "1">>, 1, 100),
           Product(<<"B", "C", "-", "1">>, 1, 100),
           Product(<<"B", "X", "-", "1">>, 1, 100),
           Product(<<"S", "I", "V", "-", "W", "3">>, 1, 100) >>]

-----------------------------------------------------------------------------
(* Sync Reconciler: sync_order_from_b2bwave *)

\* the line_items list built from order_products
ExtractLineItems(order_products) ==
    [i \in DOMAIN order_products |->
        [sku |-> order_products[i].product_code,
         quantity |-> order_products[i].quantity,
         price |-> order_products[i].final_price]]

RECURSIVE ExtractSkuPrefixes(_, _)
\* the sku_prefixes list: the text before the first hyphen of every product
\* code that has a hyphen, when not empty and not yet in the list
ExtractSkuPrefixes(order_products, sku_prefixes) ==
    IF order_products = <<>> THEN sku_prefixes
    ELSE LET product_code == Head(order_products).product_code
             prefix == SplitFirst(product_code)
         IN ExtractSkuPrefixes(
                Tail(order_products),
                IF /\ HasHyphen(product_code)
                   /\ prefix # <<>>
                   /\ prefix \notin Range(sku_prefixes)
                THEN Append(sku_prefixes, prefix)
                ELSE sku_prefixes)

RECURSIVE Distinct(_, _)
\* the distinct values of a column, in the order the rows are read
Distinct(values, seen) ==
    IF values = <<>> THEN seen
    ELSE Distinct(Tail(values),
                  IF Head(values) \in Range(seen) THEN seen
                  ELSE Append(seen, Head(values)))

\* SELECT DISTINCT warehouse_name FROM warehouse_mapping
\*   WHERE UPPER(sku_prefix) IN (upper_prefixes)
\* The query has no ORDER BY: the rows come in the order the table holds them.
get_warehouses_for_skus(mapping, sku_prefixes) ==
    IF sku_prefixes = <<>> THEN <<>>
    ELSE LET upper_prefixes == {UpperS(p) : p \in Range(sku_prefixes)}
             rows == SelectSeq(mapping,
                         LAMBDA m : UpperS(m.sku_prefix) \in upper_prefixes)
         IN Distinct([i \in DOMAIN rows |-> rows[i].warehouse_name], <<>>)

\* warehouse_1 .. warehouse_4 of the call: the first four warehouses
WarehouseSlots(warehouses) ==
    [k \in 1..4 |-> IF Len(warehouses) > k - 1 THEN warehouses[k] ELSE NULL]

\* the value the statement proposes, whatever the row holds
EXCLUDED(a, b) == b

COALESCE(a, b) == IF a # NULL THEN a ELSE b

\* the row INSERT INTO orders (...) VALUES (...) writes: the columns the
\* statement does not name take the defaults of the table
InsertedOrder(order, slots, t) ==
    [order_id |-> order.id,
     customer_name |-> order.customer_name,
     order_total |-> order.gross_total,
     warehouse_1 |-> slots[1], warehouse_2 |-> slots[2],
     warehouse_3 |-> slots[3], warehouse_4 |-> slots[4],
     payment_link_sent |-> FALSE, payment_link_sent_at |-> NULL,
     payment_received |-> FALSE, payment_received_at |-> NULL,
     payment_amount |-> NULL, shipping_cost |-> NULL,
     sent_to_warehouse |-> FALSE, sent_to_warehouse_at |-> NULL,
     warehouse_confirmed |-> FALSE, warehouse_confirmed_at |-> NULL,
     bol_sent |-> FALSE, bol_sent_at |-> NULL,
     is_complete |-> FALSE, completed_at |-> NULL,
     updated_at |-> Some(t)]

\* an upsert that replaces the row it finds (DELETE, then INSERT)
ReplaceOrder(tbl, order, slots, t) ==
    [tbl EXCEPT ![order.id] = InsertedOrder(order, slots, t)]

\* INSERT INTO orders ... ON CONFLICT (order_id) DO UPDATE SET ...
UpsertOrder(tbl, order, slots, t) ==
    LET order_id == order.id
        old == tbl[order_id]
        inserted == InsertedOrder(order, slots, t)
        updated ==
            [old EXCEPT
                !.customer_name = order.customer_name,
                !.order_total = order.gross_total,
                !.warehouse_1 = COALESCE(old.warehouse_1, slots[1]),
                !.warehouse_2 = COALESCE(old.warehouse_2, slots[2]),
                !.warehouse_3 = COALESCE(old.warehouse_3, slots[3]),
                !.warehouse_4 = COALESCE(old.warehouse_4, slots[4]),
                !.updated_at = Some(t)]
    IN [tbl EXCEPT ![order_id] = IF old = NoOrder THEN inserted ELSE updated]

\* the warehouse of one line item:
\* SELECT warehouse_name FROM warehouse_mapping
\*   WHERE UPPER(sku_prefix) = UPPER(prefix), first row
ItemWarehouse(mapping, prefix) ==
    LET rows == SelectSeq(mapping,
                    LAMBDA m : UpperS(m.sku_prefix) = UpperS(prefix))
    IN IF prefix # <<>> /\ rows # <<>> THEN Head(rows).warehouse_name
       ELSE NULL

\* the row inserted into order_line_items for one item of the snapshot
LineItemRow(mapping, order_id, item) ==
    LET sku == item.sku
        prefix == IF HasHyphen(sku) THEN SplitFirst(sku) ELSE <<>>
    IN [order_id |-> order_id, sku |-> sku, sku_prefix |-> prefix,
        quantity |-> item.quantity, price |-> item.price,
        warehouse |-> ItemWarehouse(mapping, prefix)]

\* the line items inserted without the DELETE before them
AppendLineItems(tbl, mapping, order_id, line_items) ==
    tbl \o [i \in DOMAIN line_items |->
                LineItemRow(mapping, order_id, line_items[i])]

\* DELETE FROM order_line_items WHERE order_id = ..., then one INSERT per item
ReplaceLineItems(tbl, mapping, order_id, line_items) ==
    SelectSeq(tbl, LAMBDA r : r.order_id # order_id)
        \o [i \in DOMAIN line_items |->
                LineItemRow(mapping, order_id, line_items[i])]

\* wh.replace(' & ', '-').replace(' ', '-'), after the order id and a hyphen
ShipmentId(order_id, wh) ==
    order_id \o <<"-">>
        \o Replace(Replace(wh, <<" ", "&", " ">>, <<"-">>), <<" ">>, <<"-">>)

\* a row inserted as already sent to its warehouse
NewShipmentSent(order_id, shipment_id, wh, t) ==
    [order_id |-> order_id, shipment_id |-> shipment_id, warehouse |-> wh,
     status |-> "at_warehouse", tracking |-> None, weight |-> NULL,
     ship_method |-> "LTL", quote_price |-> NULL,
     sent_to_warehouse_at |-> Some(t), warehouse_confirmed_at |-> NULL,
     shipped_at |-> NULL, delivered_at |-> NULL,
     created_at |-> Some(t), updated_at |-> Some(t)]

\* a row of order_shipments as the fan-out INSERT leaves it
NewShipment(order_id, shipment_id, wh, t) ==
    [order_id |-> order_id, shipment_id |-> shipment_id, warehouse |-> wh,
     status |-> "needs_order", tracking |-> None, weight |-> NULL,
     ship_method |-> None, quote_price |-> NULL,
     sent_to_warehouse_at |-> NULL, warehouse_confirmed_at |-> NULL,
     shipped_at |-> NULL, delivered_at |-> NULL,
     created_at |-> Some(t), updated_at |-> Some(t)]

\* SELECT id FROM order_shipments WHERE shipment_id = ...
ShipmentExists(tbl, shipment_id) ==
    \E i \in DOMAIN tbl : tbl[i].shipment_id = shipment_id

\* fan-out for one warehouse that writes the shipment afresh when it exists
FanOutOneReset(tbl, order_id, wh, t) ==
    LET shipment_id == ShipmentId(order_id, wh)
    IN IF ~ShipmentExists(tbl, shipment_id)
       THEN Append(tbl, NewShipment(order_id, shipment_id, wh, t))
       ELSE [i \in DOMAIN tbl |->
                IF tbl[i].shipment_id = shipment_id
                THEN NewShipment(order_id, shipment_id, wh, t)
                ELSE tbl[i]]

\* fan-out for one warehouse: insert the shipment unless one with its
\* identifier exists
FanOutOne(tbl, order_id, wh, t) ==
    LET shipment_id == ShipmentId(order_id, wh)
    IN IF ~ShipmentExists(tbl, shipment_id)
       THEN Append(tbl, NewShipment(order_id, shipment_id, wh, t))
       ELSE tbl

RECURSIVE FanOut(_, _, _, _)
\* the loop over warehouses_list
FanOut(tbl, order_id, warehouses_list, t) ==
    IF warehouses_list = <<>> THEN tbl
    ELSE FanOut(FanOutOne(tbl, order_id, Head(warehouses_list), t),
                order_id, Tail(warehouses_list), t)

SyncEvent(order_id, sku_prefixes) ==
    [order_id |-> order_id, event_type |-> "b2bwave_sync",
     event_data |-> [sku_prefixes |-> sku_prefixes], source |-> "api"]

\* the values sync_order_from_b2bwave computes before it opens its
\* transaction: line_items, sku_prefixes, warehouse_1..4 and warehouses_list
SyncLocals(mapping, order) ==
    LET sku_prefixes == ExtractSkuPrefixes(order.order_products, <<>>)
        slots == WarehouseSlots(get_warehouses_for_skus(mapping, sku_prefixes))
    IN [order_id |-> order.id,
        line_items |-> ExtractLineItems(order.order_products),
        sku_prefixes |-> sku_prefixes,
        slots |-> slots,
        warehouses_list |-> SelectSeq(slots, LAMBDA w : w # NULL)]

Reply(op, id, code, arg) == [op |-> op, id |-> id, code |-> code, arg |-> arg]

\* one call of sync_order_from_b2bwave with no other transaction in flight
sync_order_from_b2bwave(order) ==
    LET l == SyncLocals(warehouse_mapping, order)
    IN /\ now < MaxNow
       /\ now' = now + 1
       /\ orders' = UpsertOrder(orders, order, l.slots, now)
       /\ order_line_items' =
            ReplaceLineItems(order_line_items, warehouse_mapping, l.order_id,
                             l.line_items)
       /\ order_events' =
            order_events (+) SetToBag({SyncEvent(l.order_id, l.sku_prefixes)})
       /\ order_shipments' =
            FanOut(order_shipments, l.order_id, l.warehouses_list, now)
       /\ response' = Reply("sync_order_from_b2bwave", l.order_id, 200, order)
       /\ UNCHANGED <<warehouse_mapping, txn, calls>>

\* POST /warehouse-mapping:
\* INSERT ... ON CONFLICT (sku_prefix) DO UPDATE SET warehouse_name = ...
add_warehouse_mapping(sku_prefix, warehouse_name) ==
    LET key == UpperS(sku_prefix)
        row == [sku_prefix |-> key, warehouse_name |-> warehouse_name]
    IN /\ warehouse_mapping' =
            IF \E i \in DOMAIN warehouse_mapping :
                    warehouse_mapping[i].sku_prefix = key
            THEN [i \in DOMAIN warehouse_mapping |->
                    IF warehouse_mapping[i].sku_prefix = key THEN row
                    ELSE warehouse_mapping[i]]
            ELSE Append(warehouse_mapping, row)
       /\ response' = Reply("add_warehouse_mapping", key, 200, None)
       /\ UNCHANGED <<orders, order_line_items, order_shipments, order_events,
                      now, txn, calls>>

-----------------------------------------------------------------------------
(* Order State Machine *)

\* a view whose rules also ask for the checkpoint before theirs
current_status_in_sequence(o) ==
    IF o.is_complete THEN "complete"
    ELSE IF o.bol_sent /\ o.warehouse_confirmed THEN "awaiting_shipment"
    ELSE IF o.warehouse_confirmed /\ o.sent_to_warehouse /\ ~o.bol_sent
        THEN "needs_bol"
    ELSE IF o.sent_to_warehouse /\ o.payment_received /\ ~o.warehouse_confirmed
        THEN "awaiting_warehouse"
    ELSE IF o.payment_received /\ o.payment_link_sent /\ ~o.sent_to_warehouse
        THEN "needs_warehouse_order"
    ELSE IF o.payment_link_sent /\ ~o.payment_received THEN "awaiting_payment"
    ELSE "needs_payment_link"

\* the view with the warehouse rule tried before the shipment rules
current_status_reordered(o) ==
    IF o.is_complete THEN "complete"
    ELSE IF o.sent_to_warehouse /\ ~o.warehouse_confirmed THEN "awaiting_warehouse"
    ELSE IF o.bol_sent /\ ~o.is_complete THEN "awaiting_shipment"
    ELSE IF o.warehouse_confirmed /\ ~o.bol_sent THEN "needs_bol"
    ELSE IF o.payment_received /\ ~o.sent_to_warehouse THEN "needs_warehouse_order"
    ELSE IF o.payment_link_sent /\ ~o.payment_received THEN "awaiting_payment"
    ELSE "needs_payment_link"

\* the order_status view: SQL CASE takes the first WHEN that holds
current_status(o) ==
    IF o.is_complete THEN "complete"
    ELSE IF o.bol_sent /\ ~o.is_complete THEN "awaiting_shipment"
    ELSE IF o.warehouse_confirmed /\ ~o.bol_sent THEN "needs_bol"
    ELSE IF o.sent_to_warehouse /\ ~o.warehouse_confirmed THEN "awaiting_warehouse"
    ELSE IF o.payment_received /\ ~o.sent_to_warehouse THEN "needs_warehouse_order"
    ELSE IF o.payment_link_sent /\ ~o.payment_received THEN "awaiting_payment"
    ELSE "needs_payment_link"

\* f"{checkpoint}_at", or completed_at for is_complete
timestamp_field(checkpoint) ==
    CASE checkpoint = "payment_link_sent" -> "payment_link_sent_at"
      [] checkpoint = "payment_received" -> "payment_received_at"
      [] checkpoint = "sent_to_warehouse" -> "sent_to_warehouse_at"
      [] checkpoint = "warehouse_confirmed" -> "warehouse_confirmed_at"
      [] checkpoint = "bol_sent" -> "bol_sent_at"
      [] checkpoint = "is_complete" -> "completed_at"
      [] OTHER -> "_at"   \* any other name: no such column

\* Python truthiness of an Optional[float]
AmountTruthy(a) == a # NULL /\ a[1] # 0

\* position of a name in a sequence of names, 0 for a name not in it
IndexOf(names, name) ==
    IF \E i \in DOMAIN names : names[i] = name
    THEN CHOOSE i \in DOMAIN names : names[i] = name
    ELSE 0

\* an UPDATE that sets the checkpoint only once every earlier one is set
CheckpointRowGated(o, update, t) ==
    IF \A i \in 1..(IndexOf(Checkpoints, update.checkpoint) - 1) :
            o[Checkpoints[i]]
    THEN [o EXCEPT ![update.checkpoint] = TRUE,
                   ![timestamp_field(update.checkpoint)] = Some(t),
                   !.updated_at = Some(t)]
    ELSE [o EXCEPT !.updated_at = Some(t)]

\* an UPDATE that stores the amount and leaves shipping_cost alone
CheckpointRowAmountOnly(o, update, t) ==
    LET stamped ==
            [o EXCEPT ![update.checkpoint] = TRUE,
                      ![timestamp_field(update.checkpoint)] = Some(t),
                      !.updated_at = Some(t)]
    IN IF update.checkpoint = "payment_received"
            /\ AmountTruthy(update.payment_amount)
       THEN [stamped EXCEPT !.payment_amount = update.payment_amount]
       ELSE stamped

\* the row update_checkpoint's UPDATE leaves
CheckpointRow(o, update, t) ==
    LET stamped ==
            [o EXCEPT ![update.checkpoint] = TRUE,
                      ![timestamp_field(update.checkpoint)] = Some(t),
                      !.updated_at = Some(t)]
        paid == update.checkpoint = "payment_received"
                    /\ AmountTruthy(update.payment_amount)
        with_amount ==
            IF paid THEN [stamped EXCEPT !.payment_amount = update.payment_amount]
            ELSE stamped
    IN IF paid /\ o.order_total # 0
       THEN [with_amount EXCEPT
                !.shipping_cost = Some(update.payment_amount[1] - o.order_total)]
       ELSE with_amount

CheckpointEvent(order_id, update) ==
    [order_id |-> order_id, event_type |-> update.checkpoint,
     event_data |->
        IF AmountTruthy(update.payment_amount)
        THEN [payment_amount |-> update.payment_amount[1]]
        ELSE [payment_amount |-> 0],
     source |-> update.source]

\* PATCH /orders/{order_id}/checkpoint
update_checkpoint(order_id, update) ==
    /\ response' = Reply("update_checkpoint", order_id,
            IF update.checkpoint \notin valid_checkpoints THEN 400
            ELSE IF orders[order_id] = NoOrder THEN 404
            ELSE 200,
            update.checkpoint)
    /\ IF update.checkpoint \in valid_checkpoints /\ orders[order_id] # NoOrder
       THEN /\ now < MaxNow
            /\ now' = now + 1
            /\ orders' = [orders EXCEPT
                    ![order_id] = CheckpointRow(orders[order_id], update, now)]
            /\ order_events' =
                    order_events (+) SetToBag({CheckpointEvent(order_id, update)})
       ELSE UNCHANGED <<orders, order_events, now>>
    /\ UNCHANGED <<order_line_items, order_shipments, warehouse_mapping, txn, calls>>

\* status_checkpoints: the checkpoints each status name sets TRUE
status_checkpoints(status) ==
    CASE status = "needs_payment_link" -> {}
      [] status = "awaiting_payment" -> {"payment_link_sent"}
      [] status = "needs_warehouse_order" ->
            {"payment_link_sent", "payment_received"}
      [] status = "awaiting_warehouse" ->
            {"payment_link_sent", "payment_received", "sent_to_warehouse"}
      [] status = "needs_bol" ->
            {"payment_link_sent", "payment_received", "sent_to_warehouse",
             "warehouse_confirmed"}
      [] status = "awaiting_shipment" ->
            {"payment_link_sent", "payment_received", "sent_to_warehouse",
             "warehouse_confirmed", "bol_sent"}
      [] status = "complete" ->
            {"payment_link_sent", "payment_received", "sent_to_warehouse",
             "warehouse_confirmed", "bol_sent", "is_complete"}

StatusNames ==
    {"needs_payment_link", "awaiting_payment", "needs_warehouse_order",
     "awaiting_warehouse", "needs_bol", "awaiting_shipment", "complete"}

\* an UPDATE that sets the checkpoints of the status and resets none
StatusRowNoReset(o, status, t) ==
    LET checkpoints == status_checkpoints(status)
    IN [c \in DOMAIN o |->
            IF c \in checkpoints THEN TRUE
            ELSE IF c = "updated_at" THEN Some(t)
            ELSE o[c]]

\* the row set_order_status's UPDATE leaves
StatusRow(o, status, t) ==
    LET checkpoints == status_checkpoints(status)
    IN [o EXCEPT
            !.payment_link_sent = "payment_link_sent" \in checkpoints,
            !.payment_received = "payment_received" \in checkpoints,
            !.sent_to_warehouse = "sent_to_warehouse" \in checkpoints,
            !.warehouse_confirmed = "warehouse_confirmed" \in checkpoints,
            !.bol_sent = "bol_sent" \in checkpoints,
            !.is_complete = "is_complete" \in checkpoints,
            !.updated_at = Some(t)]

StatusEvent(order_id, status, source) ==
    [order_id |-> order_id, event_type |-> "status_change",
     event_data |-> [new_status |-> status], source |-> source]

\* a handler that logs the Event of a valid status whether or not the
\* UPDATE found the order
set_order_status_logged(order_id, status, source) ==
    /\ response' = Reply("set_order_status", order_id,
            IF status \notin StatusNames THEN 400
            ELSE IF orders[order_id] = NoOrder THEN 404
            ELSE 200,
            status)
    /\ IF status \in StatusNames
       THEN /\ now < MaxNow
            /\ now' = now + 1
            /\ orders' = IF orders[order_id] = NoOrder THEN orders
                         ELSE [orders EXCEPT
                            ![order_id] = StatusRow(orders[order_id], status, now)]
            /\ order_events' =
                    order_events (+) SetToBag({StatusEvent(order_id, status, source)})
       ELSE UNCHANGED <<orders, order_events, now>>
    /\ UNCHANGED <<order_line_items, order_shipments, warehouse_mapping, txn, calls>>

\* PATCH /orders/{order_id}/set-status
set_order_status(order_id, status, source) ==
    /\ response' = Reply("set_order_status", order_id,
            IF status \notin StatusNames THEN 400
            ELSE IF orders[order_id] = NoOrder THEN 404
            ELSE 200,
            status)
    /\ IF status \in StatusNames /\ orders[order_id] # NoOrder
       THEN /\ now < MaxNow
            /\ now' = now + 1
            /\ orders' = [orders EXCEPT
                    ![order_id] = StatusRow(orders[order_id], status, now)]
            /\ order_events' =
                    order_events (+) SetToBag({StatusEvent(order_id, status, source)})
       ELSE UNCHANGED <<orders, order_events, now>>
    /\ UNCHANGED <<order_line_items, order_shipments, warehouse_mapping, txn, calls>>

-----------------------------------------------------------------------------
(* Shipment State Machine: update_shipment *)
(* Of the columns the handler copies from a supplied parameter without any  *)
(* other effect, the model keeps tracking, weight and quote_price.          *)

NoPatch ==
    [status |-> None, tracking |-> None, weight |-> NULL, ship_method |-> None,
     quote_price |-> NULL]

\* "if not updates": no parameter was supplied
NoUpdates(p) ==
    /\ p.status = None
    /\ p.tracking = None
    /\ p.weight = NULL
    /\ p.ship_method = None
    /\ p.quote_price = NULL

\* the timestamp column a status stamps, if any
StatusStamp(r, status, t) ==
    IF status = "at_warehouse" THEN [r EXCEPT !.sent_to_warehouse_at = Some(t)]
    ELSE IF status = "needs_bol" THEN [r EXCEPT !.warehouse_confirmed_at = Some(t)]
    ELSE IF status = "shipped" THEN [r EXCEPT !.shipped_at = Some(t)]
    ELSE IF status = "delivered" THEN [r EXCEPT !.delivered_at = Some(t)]
    ELSE r

\* an UPDATE that keeps the status when the one supplied is an earlier one
PatchShipmentForward(r, p, t) ==
    LET forward == IndexOf(valid_statuses, p.status)
                        >= IndexOf(valid_statuses, r.status)
        r1 == IF p.status # None /\ forward
              THEN StatusStamp([r EXCEPT !.status = p.status], p.status, t)
              ELSE r
        r2 == IF p.tracking # None THEN [r1 EXCEPT !.tracking = p.tracking] ELSE r1
    IN [r2 EXCEPT !.updated_at = Some(t)]

\* the row the dynamic UPDATE order_shipments SET ... leaves
PatchShipment(r, p, t) ==
    LET r1 == IF p.status # None
              THEN StatusStamp([r EXCEPT !.status = p.status], p.status, t)
              ELSE r
        r2 == IF p.tracking # None THEN [r1 EXCEPT !.tracking = p.tracking] ELSE r1
        r3 == IF p.weight # NULL THEN [r2 EXCEPT !.weight = p.weight] ELSE r2
        r4 == IF p.ship_method # None
              THEN [r3 EXCEPT !.ship_method = p.ship_method] ELSE r3
        r5 == IF p.quote_price # NULL
              THEN [r4 EXCEPT !.quote_price = p.quote_price] ELSE r4
    IN [r5 EXCEPT !.updated_at = Some(t)]

\* UPDATE order_shipments SET ... WHERE shipment_id = ...
UpdateShipments(tbl, shipment_id, p, t) ==
    [i \in DOMAIN tbl |->
        IF tbl[i].shipment_id = shipment_id THEN PatchShipment(tbl[i], p, t)
        ELSE tbl[i]]

\* the roll-up test without the comparison of the two counts
AnyDelivered(tbl, order_id) ==
    \E i \in DOMAIN tbl :
        tbl[i].order_id = order_id /\ tbl[i].status = "delivered"

\* SELECT COUNT(*), COUNT(*) FILTER (WHERE status = 'delivered')
\*   FROM order_shipments WHERE order_id = ...; total > 0 and total = delivered
AllDelivered(tbl, order_id) ==
    LET total == Cardinality({i \in DOMAIN tbl : tbl[i].order_id = order_id})
        delivered == Cardinality({i \in DOMAIN tbl :
                        tbl[i].order_id = order_id /\ tbl[i].status = "delivered"})
    IN total > 0 /\ total = delivered

\* UPDATE orders SET is_complete = TRUE, completed_at = NOW(), updated_at = NOW()
\*   WHERE order_id = ...
MarkComplete(tbl, order_id, t) ==
    IF order_id \in DOMAIN tbl /\ tbl[order_id] # NoOrder
    THEN [tbl EXCEPT ![order_id] =
            [@ EXCEPT !.is_complete = TRUE, !.completed_at = Some(t),
                      !.updated_at = Some(t)]]
    ELSE tbl

\* update_shipment without its roll-up
RollUpSkipped(otbl, stbl, order_id, t) == otbl

\* the roll-up at the end of update_shipment
RollUp(otbl, stbl, order_id, t) ==
    IF AllDelivered(stbl, order_id) THEN MarkComplete(otbl, order_id, t)
    ELSE otbl

\* PATCH /shipments/{shipment_id}
update_shipment(shipment_id, p) ==
    LET bad_status == Truthy(p.status) /\ p.status \notin Range(valid_statuses)
        bad_method == Truthy(p.ship_method) /\ p.ship_method \notin valid_methods
        found == ShipmentExists(order_shipments, shipment_id)
        result == order_shipments[CHOOSE i \in DOMAIN order_shipments :
                        order_shipments[i].shipment_id = shipment_id]
        updated == UpdateShipments(order_shipments, shipment_id, p, now)
    IN /\ response' = Reply("update_shipment", shipment_id,
                IF bad_status \/ bad_method THEN 400
                ELSE IF NoUpdates(p) THEN 200
                ELSE IF ~found THEN 404
                ELSE 200,
                p.status)
       /\ IF ~bad_status /\ ~bad_method /\ ~NoUpdates(p) /\ found
          THEN /\ now < MaxNow
               /\ now' = now + 1
               /\ order_shipments' = updated
               /\ orders' = RollUp(orders, updated, result.order_id, now)
          ELSE UNCHANGED <<orders, order_shipments, now>>
       /\ UNCHANGED <<order_line_items, order_events, warehouse_mapping, txn, calls>>

-----------------------------------------------------------------------------
(* Editing an order: update_order (PATCH /orders/{order_id}).  Of the       *)
(* fields of OrderUpdate the model keeps those the order row of the model   *)
(* has: customer_name, order_total, warehouse_1, warehouse_2.               *)

\* a body with no field set
NoOrderUpdate ==
    [customer_name |-> None, order_total |-> NULL, warehouse_1 |-> NULL,
     warehouse_2 |-> NULL]

\* UPDATE orders SET <every field that is not None>, updated_at = NOW()
OrderRowUpdated(o, update, t) ==
    [o EXCEPT
        !.customer_name =
            IF update.customer_name # None THEN update.customer_name ELSE @,
        !.order_total =
            IF update.order_total # NULL THEN update.order_total[1] ELSE @,
        !.warehouse_1 =
            IF update.warehouse_1 # NULL THEN update.warehouse_1 ELSE @,
        !.warehouse_2 =
            IF update.warehouse_2 # NULL THEN update.warehouse_2 ELSE @,
        !.updated_at = Some(t)]

update_order(order_id, update) ==
    IF update = NoOrderUpdate
    THEN /\ response' = Reply("update_order", order_id, 400, None)
         /\ UNCHANGED <<store, now, txn, calls>>
    ELSE IF orders[order_id] = NoOrder
    THEN /\ response' = Reply("update_order", order_id, 404, None)
         /\ UNCHANGED <<store, now, txn, calls>>
    ELSE /\ now < MaxNow
         /\ now' = now + 1
         /\ orders' = [orders EXCEPT ![order_id] =
                            OrderRowUpdated(@, update, now)]
         /\ response' = Reply("update_order", order_id, 200, None)
         /\ UNCHANGED <<order_line_items, order_shipments, order_events,
                        warehouse_mapping, txn, calls>>

-----------------------------------------------------------------------------
(* Deleting an order *)

\* a cascade that empties order_events
PurgeEvents(events, order_id) == EmptyBag

\* order_events.order_id REFERENCES orders(order_id) ON DELETE CASCADE
CascadeEvents(events, order_id) ==
    LET gone == {e \in BagToSet(events) : e.order_id = order_id}
    IN events (-) [e \in gone |-> CopiesIn(e, events)]

\* a delete of the order and its shipments that leaves the line items
delete_order_and_shipments(order_id) ==
    /\ order_shipments' =
            SelectSeq(order_shipments, LAMBDA r : r.order_id # order_id)
    /\ orders' = [orders EXCEPT ![order_id] = NoOrder]
    /\ order_events' = CascadeEvents(order_events, order_id)
    /\ response' = Reply("delete_order", order_id, 200, None)
    /\ UNCHANGED <<order_line_items, warehouse_mapping, now, txn, calls>>

\* DELETE /orders/{order_id}
delete_order(order_id) ==
    /\ order_shipments' =
            SelectSeq(order_shipments, LAMBDA r : r.order_id # order_id)
    /\ order_line_items' =
            SelectSeq(order_line_items, LAMBDA r : r.order_id # order_id)
    /\ orders' = [orders EXCEPT ![order_id] = NoOrder]
    /\ order_events' = CascadeEvents(order_events, order_id)
    /\ response' = Reply("delete_order", order_id, 200, None)
    /\ UNCHANGED <<warehouse_mapping, now, txn, calls>>

-----------------------------------------------------------------------------
(* Reading an order *)

\* GET /orders/{order_id}: the order joined with the order_status view
get_order(order_id) ==
    /\ response' =
            IF orders[order_id] = NoOrder
            THEN Reply("get_order", order_id, 404, None)
            ELSE Reply("get_order", order_id, 200,
                       current_status(orders[order_id]))
    /\ UNCHANGED <<store, now, txn, calls>>

-----------------------------------------------------------------------------
(* Checkout: get_checkout_data and calculate_order_shipping (src/checkout.py) *)
(* Amounts are whole dollars, on which round(x, 2) changes nothing.          *)

UNKNOWN == <<"U", "N", "K", "N", "O", "W", "N">>

\* the warehouse codes of the WAREHOUSES table that the model uses
WAREHOUSES == {LI, DL, ROC, GoBravura, CabinetStone, DuraStone}

\* rows of the checkout's own prefix table
SKU_WAREHOUSE_MAP ==
    << [prefix |-> <<"W", "S", "P">>, code |-> LI],
       [prefix |-> <<"G", "S", "P">>, code |-> LI],
       [prefix |-> <<"R", "W">>, code |-> DL],
       [prefix |-> <<"C", "S">>, code |-> DL],
       [prefix |-> <<"B", "C">>, code |-> ROC],
       [prefix |-> <<"B", "X">>, code |-> GoBravura],
       [prefix |-> <<"C", "S", "-">>, code |-> CabinetStone],
       [prefix |-> <<"S", "I", "V">>, code |-> DuraStone] >>

SMALL_PACKAGE_WEIGHT_LIMIT == 70

\* the text before the first hyphen (the whole SKU when it has none), its
\* digits removed, upper-cased, looked up in SKU_WAREHOUSE_MAP
get_warehouse_for_sku(sku) ==
    LET prefix == UpperS(SelectSeq(SplitFirst(sku), LAMBDA c : ~IsDigit(c)))
        hits == {i \in DOMAIN SKU_WAREHOUSE_MAP :
                    SKU_WAREHOUSE_MAP[i].prefix = prefix}
    IN IF hits = {} THEN NULL
       ELSE SKU_WAREHOUSE_MAP[CHOOSE i \in hits : TRUE].code

\* the key of the group an item falls into
GroupKey(item) ==
    IF get_warehouse_for_sku(item.sku) = NULL THEN UNKNOWN
    ELSE get_warehouse_for_sku(item.sku)

\* the groups dict, in insertion order: one entry per key, its items in the
\* order of the line items
group_items_by_warehouse(line_items) ==
    LET keys == Distinct([i \in DOMAIN line_items |-> GroupKey(line_items[i])],
                         <<>>)
    IN [k \in DOMAIN keys |->
            [warehouse |-> keys[k],
             items |-> SelectSeq(line_items,
                                 LAMBDA item : GroupKey(item) = keys[k])]]

RECURSIVE SumWeight(_)
SumWeight(items) ==
    IF items = <<>> THEN 0
    ELSE Head(items).quantity * 30 + SumWeight(Tail(items))

\* the estimate without its minimum
estimated_weight(items) == SumWeight(items)

\* 30 lbs per unit, at least 100 lbs
calculate_shipment_weight(items) ==
    IF SumWeight(items) > 100 THEN SumWeight(items) ELSE 100

\* a cutoff that sends the limit itself to the small-package carrier
select_shipping_method_inclusive(weight, items) ==
    IF weight <= SMALL_PACKAGE_WEIGHT_LIMIT THEN "small_package" ELSE "ltl"

\* the items are passed and not read
select_shipping_method(weight, items) ==
    IF weight < SMALL_PACKAGE_WEIGHT_LIMIT THEN "small_package" ELSE "ltl"

\* what a carrier's quote service can answer: a failure, a success without a
\* price, an R+L price, a Shippo rate
QuoteOutcomes ==
    { [success |-> FALSE, quote |-> NULL, cheapest |-> NULL],
      [success |-> TRUE, quote |-> NULL, cheapest |-> NULL],
      [success |-> TRUE, quote |-> Some([customer_price |-> 40]),
       cheapest |-> NULL],
      [success |-> TRUE, quote |-> Some([customer_price |-> 75]),
       cheapest |-> NULL],
      [success |-> TRUE, quote |-> NULL, cheapest |-> Some([amount |-> 12])] }

\* the entry of the shipments list for one group; quote is the answer of the
\* carrier's service for this group
ShipmentQuote(group, quote) ==
    IF group.warehouse = UNKNOWN
    THEN [warehouse |-> UNKNOWN, items |-> group.items,
          quote |-> [success |-> FALSE, quote |-> NULL, cheapest |-> NULL],
          shipping_cost |-> 0, shipping_method |-> "unknown"]
    ELSE LET weight == calculate_shipment_weight(group.items)
             shipping_method == select_shipping_method(weight, group.items)
             shipping_cost ==
                IF shipping_method = "small_package"
                THEN IF quote.success /\ quote.cheapest # NULL
                     THEN quote.cheapest[1].amount ELSE 0
                ELSE IF quote.success /\ quote.quote # NULL
                     THEN quote.quote[1].customer_price ELSE 0
         IN [warehouse |-> group.warehouse, items |-> group.items,
             quote |-> quote, shipping_cost |-> shipping_cost,
             shipping_method |-> shipping_method]

RECURSIVE SumShipping(_)
SumShipping(shipments) ==
    IF shipments = <<>> THEN 0
    ELSE (IF Head(shipments).warehouse = UNKNOWN THEN 0
          ELSE Head(shipments).shipping_cost) + SumShipping(Tail(shipments))

RECURSIVE SumItems(_)
\* price * int(quantity or 1), summed over the line items
SumItems(line_items) ==
    IF line_items = <<>> THEN 0
    ELSE Head(line_items).price
            * (IF Head(line_items).quantity = 0 THEN 1
               ELSE Head(line_items).quantity)
         + SumItems(Tail(line_items))

\* quotes: the answer of the carrier's service for each warehouse
calculate_order_shipping(line_items, quotes) ==
    LET warehouse_groups ==
            SelectSeq(group_items_by_warehouse(line_items),
                      LAMBDA g : g.warehouse = UNKNOWN
                                   \/ g.warehouse \in WAREHOUSES)
        shipments ==
            [i \in DOMAIN warehouse_groups |->
                ShipmentQuote(warehouse_groups[i],
                              IF warehouse_groups[i].warehouse = UNKNOWN
                              THEN NULL
                              ELSE quotes[warehouse_groups[i].warehouse])]
        total_shipping == SumShipping(shipments)
        total_items == SumItems(line_items)
    IN [shipments |-> shipments,
        total_shipping |-> total_shipping,
        total_items |-> total_items,
        grand_total |-> total_items + total_shipping]

\* the order as the checkout reads it from the order source
fetch_b2bwave_order(order) ==
    [id |-> order.id,
     line_items |->
        [i \in DOMAIN order.order_products |->
            [price |-> order.order_products[i].price,
             quantity |-> order.order_products[i].quantity,
             sku |-> order.order_products[i].product_code]]]

\* the warehouses a quote is asked for when the order is priced
QuotedWarehouses(order) ==
    {GroupKey(item) : item \in Range(fetch_b2bwave_order(order).line_items)}
        \ {UNKNOWN}

\* GET /checkout/{order_id} with a valid token, checkout enabled
get_checkout_data(order, quotes) ==
    /\ response' =
            Reply("get_checkout_data", order.id, 200,
                  calculate_order_shipping(fetch_b2bwave_order(order).line_items,
                                           quotes))
    /\ UNCHANGED <<store, now, txn, calls>>

-----------------------------------------------------------------------------
(* Warehouse routing, path by path: the look-up key each path computes from *)
(* a SKU and the warehouse it finds                                         *)

\* reconcile (main.py): the text before the first hyphen, no key when the SKU
\* has no hyphen; compared upper-cased
reconcile_prefix(sku) ==
    UpperS(IF HasHyphen(sku) THEN SplitFirst(sku) ELSE <<>>)

\* db_helpers.get_warehouse_for_sku: the text before the first hyphen, or the
\* whole SKU, upper-cased
db_helpers_prefix(sku) == UpperS(SplitFirst(sku))

\* checkout.get_warehouse_for_sku: the text before the first hyphen, or the
\* whole SKU, every digit removed, upper-cased
checkout_prefix(sku) ==
    UpperS(SelectSeq(SplitFirst(sku), LAMBDA c : ~IsDigit(c)))

\* db_helpers.get_warehouse_for_sku: SELECT warehouse_name FROM
\* warehouse_mapping WHERE UPPER(sku_prefix) = prefix, first row
db_helpers_get_warehouse_for_sku(mapping, sku) ==
    LET rows == SelectSeq(mapping,
                    LAMBDA m : UpperS(m.sku_prefix) = db_helpers_prefix(sku))
    IN IF sku # <<>> /\ rows # <<>> THEN Head(rows).warehouse_name ELSE NULL

\* one SKU resolved by each of the three paths
resolve_sku(sku) ==
    /\ response' =
            Reply("resolve_sku", sku, 200,
                  [reconcile |->
                        [prefix |-> reconcile_prefix(sku),
                         warehouse |->
                            LineItemRow(warehouse_mapping, NULL,
                                        [sku |-> sku, quantity |-> 1,
                                         price |-> 0]).warehouse],
                   db_helpers |->
                        [prefix |-> db_helpers_prefix(sku),
                         warehouse |->
                            db_helpers_get_warehouse_for_sku(warehouse_mapping,
                                                             sku)],
                   checkout |->
                        [prefix |-> checkout_prefix(sku),
                         warehouse |-> get_warehouse_for_sku(sku)]])
    /\ UNCHANGED <<store, now, txn, calls>>

-----------------------------------------------------------------------------
(* One shipping calculation, request by request: the loop of                *)
(* calculate_order_shipping over the warehouse groups                       *)

\* no calculation in progress
IdleQuote ==
    [pc |-> "idle", order_id |-> NULL, line_items |-> <<>>, groups |-> <<>>,
     k |-> 0, issued |-> <<>>, shipments |-> <<>>]

\* every remaining group's request sent before any answer is awaited
IssueAllAtOnce(q) ==
    [q EXCEPT !.pc = "wait",
              !.issued = @ \o
                  [j \in 1..Len(SelectSeq(SubSeq(q.groups, q.k, Len(q.groups)),
                                          LAMBDA g : g.warehouse # UNKNOWN)) |->
                      SelectSeq(SubSeq(q.groups, q.k, Len(q.groups)),
                                LAMBDA g : g.warehouse # UNKNOWN)[j].warehouse]]

\* get_shipping_quote / get_shippo_quote is called for the group the loop is
\* at: urlopen sends the request and blocks until the answer or the timeout
IssueNext(q) ==
    [q EXCEPT !.pc = "wait", !.issued = Append(@, q.groups[q.k].warehouse)]

\* the handler starts: the order is fetched and its items are grouped
StartQuote(order) ==
    /\ quoting.pc = "idle"
    /\ quoting' =
            [IdleQuote EXCEPT
                !.pc = "loop",
                !.order_id = order.id,
                !.line_items = fetch_b2bwave_order(order).line_items,
                !.groups =
                    SelectSeq(
                        group_items_by_warehouse(
                            fetch_b2bwave_order(order).line_items),
                        LAMBDA g : g.warehouse = UNKNOWN
                                     \/ g.warehouse \in WAREHOUSES),
                !.k = 1]
    /\ UNCHANGED <<store, now, response, txn, patching, auto_sync_running, syncs>>

\* the loop is at the 'UNKNOWN' group: its entry is appended, no request
AppendUnknown ==
    /\ quoting.pc = "loop"
    /\ quoting.k <= Len(quoting.groups)
    /\ quoting.groups[quoting.k].warehouse = UNKNOWN
    /\ quoting' =
            [quoting EXCEPT
                !.shipments = Append(@, ShipmentQuote(quoting.groups[quoting.k],
                                                      NULL)),
                !.k = @ + 1]
    /\ UNCHANGED <<store, now, response, txn, patching, auto_sync_running, syncs>>

\* the loop is at a warehouse's group: the carrier is asked
IssueRequest ==
    /\ quoting.pc = "loop"
    /\ quoting.k <= Len(quoting.groups)
    /\ quoting.groups[quoting.k].warehouse # UNKNOWN
    /\ quoting' = IssueNext(quoting)
    /\ UNCHANGED <<store, now, response, txn, patching, auto_sync_running, syncs>>

\* a loop that a failed quote ends: the failed group and the groups after
\* it get no entry
SettledAborts(q, quote) ==
    IF quote.success
    THEN [q EXCEPT !.pc = "loop",
                   !.shipments = Append(@, ShipmentQuote(q.groups[q.k], quote)),
                   !.k = @ + 1]
    ELSE [q EXCEPT !.pc = "loop", !.k = Len(q.groups) + 1]

\* the calculation after the answer quote to the request in flight: the
\* group's entry is appended and the loop moves on
Settled(q, quote) ==
    [q EXCEPT !.pc = "loop",
              !.shipments = Append(@, ShipmentQuote(q.groups[q.k], quote)),
              !.k = @ + 1]

\* the carrier answers, or the request fails or times out (the except of the
\* quote function answers success false)
SettleRequest ==
    /\ quoting.pc = "wait"
    /\ \E quote \in QuoteOutcomes : quoting' = Settled(quoting, quote)
    /\ UNCHANGED <<store, now, response, txn, patching, auto_sync_running, syncs>>

\* the loop is over: the totals are computed and the result is returned
ReturnQuote ==
    /\ quoting.pc = "loop"
    /\ quoting.k > Len(quoting.groups)
    /\ response' =
            Reply("get_checkout_data", quoting.order_id, 200,
                  [shipments |-> quoting.shipments,
                   total_shipping |-> SumShipping(quoting.shipments),
                   total_items |-> SumItems(quoting.line_items),
                   grand_total |-> SumItems(quoting.line_items)
                                    + SumShipping(quoting.shipments)])
    /\ quoting' = IdleQuote
    /\ UNCHANGED <<store, now, txn, patching, auto_sync_running, syncs>>

-----------------------------------------------------------------------------
(* Sync cycles: run_auto_sync (the background poller) and sync_from_b2bwave *)
(* (POST /b2bwave/sync), one order at a time.  Each reconcile of a cycle is *)
(* one transaction.  log is the cycle's trace: the print of each step.      *)

SyncNames == {"auto", "manual"}

\* no cycle in progress
IdleSync == [pc |-> "idle", orders_list |-> <<>>, i |-> 0, log |-> <<>>]

LogEntry(step, id, ok) == [step |-> step, id |-> id, ok |-> ok]

\* the writes of one sync_order_from_b2bwave call, committed together
SyncWrites(order) ==
    LET l == SyncLocals(warehouse_mapping, order)
    IN /\ now < MaxNow
       /\ now' = now + 1
       /\ orders' = UpsertOrder(orders, order, l.slots, now)
       /\ order_line_items' =
            ReplaceLineItems(order_line_items, warehouse_mapping, l.order_id,
                             l.line_items)
       /\ order_events' =
            order_events (+) SetToBag({SyncEvent(l.order_id, l.sku_prefixes)})
       /\ order_shipments' =
            FanOut(order_shipments, l.order_id, l.warehouses_list, now)
       /\ UNCHANGED warehouse_mapping

\* a cycle that stops at the first order whose reconcile raises
OrderFailedAborts(c) ==
    [c EXCEPT !.log = Append(@, LogEntry("order", c.orders_list[c.i].id, FALSE)),
              !.pc = "idle"]

\* "except Exception as e: print(...)" inside the loop: the loop goes on
OrderFailed(c) ==
    [c EXCEPT !.log = Append(@, LogEntry("order", c.orders_list[c.i].id, FALSE)),
              !.i = @ + 1]

\* sync_order_from_b2bwave returned: synced += 1
OrderSynced(c) ==
    [c EXCEPT !.log = Append(@, LogEntry("order", c.orders_list[c.i].id, TRUE)),
              !.i = @ + 1]

\* the poller wakes from time.sleep: auto_sync_running = True
Wake ==
    /\ syncs["auto"].pc = "idle"
    /\ auto_sync_running' = TRUE
    /\ syncs' = [syncs EXCEPT !["auto"] = [IdleSync EXCEPT !.pc = "fetch"]]
    /\ UNCHANGED <<store, now, response, txn, patching, quoting>>

\* POST /b2bwave/sync arrives; the handler does not read auto_sync_running
ManualStart ==
    /\ syncs["manual"].pc = "idle"
    /\ syncs' = [syncs EXCEPT !["manual"] = [IdleSync EXCEPT !.pc = "fetch"]]
    /\ UNCHANGED <<store, now, response, txn, patching, quoting, auto_sync_running>>

\* b2bwave_api_request("orders", ...) returns the list of orders
Fetch(p, orders_list) ==
    /\ syncs[p].pc = "fetch"
    /\ syncs' = [syncs EXCEPT ![p].pc = "orders",
                              ![p].orders_list = orders_list,
                              ![p].i = 1]
    /\ UNCHANGED <<store, now, response, txn, patching, quoting, auto_sync_running>>

\* b2bwave_api_request raises.  Poller: the outer except prints, the finally
\* clears the flag.  Manual: HTTPException 500.
FetchFails(p) ==
    /\ syncs[p].pc = "fetch"
    /\ syncs' = [syncs EXCEPT ![p].pc = "idle",
                              ![p].log = <<LogEntry("fetch", NULL, FALSE)>>]
    /\ IF p = "auto"
       THEN auto_sync_running' = FALSE /\ UNCHANGED response
       ELSE /\ response' = Reply("sync_from_b2bwave", NULL, 500, None)
            /\ UNCHANGED auto_sync_running
    /\ UNCHANGED <<store, now, txn, patching, quoting>>

\* the loop reconciles the order it is at
SyncOrder(p) ==
    /\ syncs[p].pc = "orders"
    /\ syncs[p].i <= Len(syncs[p].orders_list)
    /\ SyncWrites(syncs[p].orders_list[syncs[p].i])
    /\ syncs' = [syncs EXCEPT ![p] = OrderSynced(@)]
    /\ UNCHANGED <<response, txn, patching, quoting, auto_sync_running>>

\* the reconcile of the order the loop is at raises: its transaction is
\* rolled back, the exception is caught in the loop
SyncOrderFails(p) ==
    /\ syncs[p].pc = "orders"
    /\ syncs[p].i <= Len(syncs[p].orders_list)
    /\ syncs' = [syncs EXCEPT ![p] = OrderFailed(@)]
    /\ UNCHANGED <<store, now, response, txn, patching, quoting, auto_sync_running>>

\* the poller's loop is over: run_gmail_sync is called, in a try of its own;
\* ok tells whether it returned or raised
GmailSync ==
    /\ syncs["auto"].pc = "orders"
    /\ syncs["auto"].i > Len(syncs["auto"].orders_list)
    /\ \E ok \in BOOLEAN :
          syncs' = [syncs EXCEPT
                        !["auto"].pc = "square",
                        !["auto"].log = Append(@, LogEntry("gmail", NULL, ok))]
    /\ UNCHANGED <<store, now, response, txn, patching, quoting, auto_sync_running>>

\* run_square_sync is called, in a try of its own; then the finally:
\* auto_sync_running = False, and the poller sleeps
SquareSync ==
    /\ syncs["auto"].pc = "square"
    /\ \E ok \in BOOLEAN :
          syncs' = [syncs EXCEPT
                        !["auto"].pc = "idle",
                        !["auto"].log = Append(@, LogEntry("square", NULL, ok))]
    /\ auto_sync_running' = FALSE
    /\ UNCHANGED <<store, now, response, txn, patching, quoting>>

\* the manual sync's loop is over: the counts are returned
ManualReturn ==
    /\ syncs["manual"].pc = "orders"
    /\ syncs["manual"].i > Len(syncs["manual"].orders_list)
    /\ syncs' = [syncs EXCEPT !["manual"].pc = "idle"]
    /\ response' =
            Reply("sync_from_b2bwave", NULL, 200,
                  [synced_count |->
                        Len(SelectSeq(syncs["manual"].log, LAMBDA e : e.ok)),
                   error_count |->
                        Len(SelectSeq(syncs["manual"].log, LAMBDA e : ~e.ok))])
    /\ UNCHANGED <<store, now, txn, patching, quoting, auto_sync_running>>

-----------------------------------------------------------------------------
(* Concurrent reconciles: sync_order_from_b2bwave one statement at a time   *)
(* The store is PostgreSQL at READ COMMITTED.  A transaction's writes show  *)
(* to the others at its commit; NOW() is the time the transaction started.  *)
(* INSERT ... ON CONFLICT (order_id) DO UPDATE locks the order's row until  *)
(* the transaction ends, and an INSERT of a shipment_id that another open   *)
(* transaction has inserted waits on the UNIQUE index for that transaction. *)

Workers == 1..NWorkers

NoSnapshot ==
    [id |-> NULL, customer_name |-> None, gross_total |-> 0, order_products |-> <<>>]

\* a worker between calls
IdleTxn ==
    [pc |-> "idle", order |-> NoSnapshot,
     l |-> SyncLocals(DefaultMapping, NoSnapshot), t |-> 0, k |-> 0,
     found |-> FALSE, ships |-> <<>>, waited |-> FALSE, outcome |-> "none",
     failed_at |-> "none", deleted |-> 0]

\* the transaction holds the lock of its order's row
HoldsRow(x) == x.pc \in {"items", "fanout", "insert"}

\* the shipment id the fan-out loop of worker w is at
LoopShipmentId(x) == ShipmentId(x.l.order_id, x.l.warehouses_list[x.k])

\* a store without the row lock of the upsert: only the UNIQUE index of
\* shipment_id makes a statement wait
NoRowLock(w) ==
    \E v \in Workers \ {w} :
        /\ txn[w].pc = "insert"
        /\ ~txn[w].found
        /\ ShipmentExists(txn[v].ships, LoopShipmentId(txn[w]))

\* a store in which no statement waits for another transaction
NoWait(w) == FALSE

\* the statement worker w is at has to wait for another open transaction
MustWait(w) ==
    \E v \in Workers \ {w} :
        \/ /\ txn[w].pc \in {"upsert", "upsert_wait"}
           /\ HoldsRow(txn[v])
           /\ txn[v].l.order_id = txn[w].l.order_id
        \/ /\ txn[w].pc = "insert"
           /\ ~txn[w].found
           /\ ShipmentExists(txn[v].ships, LoopShipmentId(txn[w]))

\* the call starts: get_warehouses_for_skus, in a transaction of its own
Begin(w, order) ==
    /\ txn[w].pc = "idle"
    /\ now < MaxNow
    /\ txn' = [txn EXCEPT ![w] =
            [IdleTxn EXCEPT !.pc = "upsert", !.order = order,
                            !.l = SyncLocals(warehouse_mapping, order)]]
    /\ UNCHANGED <<store, now, response, calls>>

\* INSERT INTO orders ... ON CONFLICT (order_id) DO UPDATE is issued: the
\* transaction starts, and the statement takes the row lock or waits for it
Upsert(w) ==
    /\ txn[w].pc = "upsert"
    /\ now < MaxNow
    /\ now' = now + 1
    /\ txn' = [txn EXCEPT ![w] =
            IF MustWait(w)
            THEN [@ EXCEPT !.pc = "upsert_wait", !.t = now, !.waited = TRUE]
            ELSE [@ EXCEPT !.pc = "items", !.t = now]]
    /\ UNCHANGED <<store, response, calls>>

\* the waiting upsert gets the row lock
Resume(w) ==
    /\ txn[w].pc = "upsert_wait"
    /\ ~MustWait(w)
    /\ txn' = [txn EXCEPT ![w].pc = "items"]
    /\ UNCHANGED <<store, now, response, calls>>

RECURSIVE DropOldest(_, _, _)
\* the table without the n oldest rows of the order
DropOldest(tbl, order_id, n) ==
    IF n = 0 \/ tbl = <<>> THEN tbl
    ELSE IF Head(tbl).order_id = order_id
    THEN DropOldest(Tail(tbl), order_id, n - 1)
    ELSE <<Head(tbl)>> \o DropOldest(Tail(tbl), order_id, n)

\* DELETE and INSERT of the order's line items, INSERT of the sync event.
\* The DELETE removes the rows of the order that are committed when it runs;
\* deleted is their number.
Items(w) ==
    /\ txn[w].pc = "items"
    /\ txn' = [txn EXCEPT
            ![w].pc = "fanout", ![w].k = 1,
            ![w].deleted =
                Len(SelectSeq(order_line_items,
                              LAMBDA r : r.order_id = txn[w].l.order_id))]
    /\ UNCHANGED <<store, now, response, calls>>

\* SELECT id FROM order_shipments WHERE shipment_id = ...: the committed
\* rows and the transaction's own
Check(w) ==
    /\ txn[w].pc = "fanout"
    /\ txn[w].k <= Len(txn[w].l.warehouses_list)
    /\ txn' = [txn EXCEPT
            ![w].pc = "insert",
            ![w].found =
                \/ ShipmentExists(order_shipments, LoopShipmentId(txn[w]))
                \/ ShipmentExists(txn[w].ships, LoopShipmentId(txn[w]))]
    /\ UNCHANGED <<store, now, response, calls>>

\* "if not cur.fetchone(): INSERT INTO order_shipments ...".  A shipment_id
\* that is committed by now violates the UNIQUE constraint: the exception
\* leaves get_db, which rolls the transaction back.
Insert(w) ==
    /\ txn[w].pc = "insert"
    /\ ~MustWait(w)
    /\ IF txn[w].found
       THEN /\ txn' = [txn EXCEPT ![w].pc = "fanout", ![w].k = @ + 1]
            /\ UNCHANGED response
       ELSE IF ShipmentExists(order_shipments, LoopShipmentId(txn[w]))
       THEN /\ txn' = [txn EXCEPT ![w] =
                    [IdleTxn EXCEPT !.order = txn[w].order,
                                    !.waited = txn[w].waited,
                                    !.outcome = "error"]]
            /\ response' = Reply("sync_order_from_b2bwave", txn[w].l.order_id,
                                 500, txn[w].order)
       ELSE /\ txn' = [txn EXCEPT
                    ![w].pc = "fanout", ![w].k = @ + 1,
                    ![w].ships = Append(@,
                        NewShipment(txn[w].l.order_id, LoopShipmentId(txn[w]),
                                    txn[w].l.warehouses_list[txn[w].k],
                                    txn[w].t))]
            /\ UNCHANGED response
    /\ UNCHANGED <<store, now, calls>>

\* the with get_db() block ends: conn.commit()
Commit(w) ==
    /\ txn[w].pc = "fanout"
    /\ txn[w].k > Len(txn[w].l.warehouses_list)
    /\ orders' = UpsertOrder(orders, txn[w].order, txn[w].l.slots, txn[w].t)
    /\ order_line_items' =
            AppendLineItems(
                DropOldest(order_line_items, txn[w].l.order_id, txn[w].deleted),
                warehouse_mapping, txn[w].l.order_id, txn[w].l.line_items)
    /\ order_events' = order_events
            (+) SetToBag({SyncEvent(txn[w].l.order_id, txn[w].l.sku_prefixes)})
    /\ order_shipments' = order_shipments \o txn[w].ships
    /\ txn' = [txn EXCEPT ![w] =
            [IdleTxn EXCEPT !.order = txn[w].order, !.waited = txn[w].waited,
                            !.outcome = "ok"]]
    /\ response' = Reply("sync_order_from_b2bwave", txn[w].l.order_id, 200,
                         txn[w].order)
    /\ UNCHANGED <<warehouse_mapping, now, calls>>

\* the tables a reconcile writes
Tables ==
    [orders |-> orders, order_line_items |-> order_line_items,
     order_events |-> order_events, order_shipments |-> order_shipments]

\* a connection that commits each statement: the statements that transaction
\* x has executed stay when a later one raises
AfterAutocommit(tables, x, mapping) ==
    IF x.pc \in {"fanout", "insert"}
    THEN [orders |-> UpsertOrder(tables.orders, x.order, x.l.slots, x.t),
          order_line_items |->
                ReplaceLineItems(tables.order_line_items, mapping,
                                 x.l.order_id, x.l.line_items),
          order_events |->
                tables.order_events
                    (+) SetToBag({SyncEvent(x.l.order_id, x.l.sku_prefixes)}),
          order_shipments |-> tables.order_shipments \o x.ships]
    ELSE IF x.pc = "items"
    THEN [tables EXCEPT
            !.orders = UpsertOrder(tables.orders, x.order, x.l.slots, x.t)]
    ELSE tables

\* get_db: "except Exception: conn.rollback(); raise" - nothing that
\* transaction x has executed stays
AfterRollback(tables, x, mapping) == tables

\* the statement worker w is at raises (connection lost, constraint, bad
\* value): the exception leaves the with get_db() block
Fail(w) ==
    /\ txn[w].pc \in {"upsert", "items", "fanout", "insert"}
    /\ LET after == AfterRollback(Tables, txn[w], warehouse_mapping)
       IN /\ orders' = after.orders
          /\ order_line_items' = after.order_line_items
          /\ order_events' = after.order_events
          /\ order_shipments' = after.order_shipments
    /\ txn' = [txn EXCEPT ![w] =
            [IdleTxn EXCEPT !.order = txn[w].order, !.waited = txn[w].waited,
                            !.outcome = "error", !.failed_at = txn[w].pc]]
    /\ response' = Reply("sync_order_from_b2bwave", txn[w].l.order_id, 500,
                         txn[w].order)
    /\ UNCHANGED <<warehouse_mapping, now, calls>>

-----------------------------------------------------------------------------
(* Concurrent shipment updates: update_shipment one statement at a time, for *)
(* parameters that pass the validation and hold at least one update.  At     *)
(* READ COMMITTED each statement reads the rows committed when it starts,   *)
(* and the transaction's own writes.  UPDATE locks the row it writes until   *)
(* the transaction ends.                                                     *)

\* a worker between calls
IdlePatch ==
    [pc |-> "idle", shipment_id |-> NULL, p |-> NoPatch, t |-> 0,
     order_id |-> NULL, marked |-> FALSE, outcome |-> "none"]

\* the shipment row is locked by the UPDATE of another open transaction
ShipmentLocked(w) ==
    \E v \in Workers \ {w} :
        /\ patching[v].pc \in {"count", "mark", "commit"}
        /\ patching[v].shipment_id = patching[w].shipment_id

\* the order row is locked by the UPDATE of another open transaction
OrderLocked(w) ==
    \E v \in Workers \ {w} :
        /\ patching[v].pc = "commit"
        /\ patching[v].marked
        /\ patching[v].order_id = patching[w].order_id

\* order_shipments as the statements of transaction x read it: the committed
\* rows, with the row x has updated
ShipmentsSeenBy(x) ==
    UpdateShipments(order_shipments, x.shipment_id, x.p, x.t)

\* the request arrives: the parameters are turned into the SET list
BeginPatch(w, shipment_id, p) ==
    /\ patching[w].pc = "idle"
    /\ now < MaxNow
    /\ patching' = [patching EXCEPT ![w] =
            [IdlePatch EXCEPT !.pc = "update", !.shipment_id = shipment_id,
                              !.p = p]]
    /\ UNCHANGED <<store, now, response, txn, quoting, auto_sync_running, syncs>>

\* UPDATE order_shipments SET ... WHERE shipment_id = ... RETURNING * is
\* issued: the transaction starts; no row: 404; a locked row: the statement
\* waits
IssueUpdate(w) ==
    LET x == patching[w]
        found == ShipmentExists(order_shipments, x.shipment_id)
        result == order_shipments[CHOOSE i \in DOMAIN order_shipments :
                        order_shipments[i].shipment_id = x.shipment_id]
    IN /\ x.pc = "update"
       /\ now < MaxNow
       /\ now' = now + 1
       /\ IF ~found
          THEN /\ patching' = [patching EXCEPT ![w] =
                        [IdlePatch EXCEPT !.shipment_id = x.shipment_id,
                                          !.p = x.p, !.outcome = "not_found"]]
               /\ response' = Reply("update_shipment", x.shipment_id, 404,
                                    x.p.status)
          ELSE /\ patching' = [patching EXCEPT ![w] =
                        [x EXCEPT !.pc = IF ShipmentLocked(w)
                                         THEN "update_wait" ELSE "count",
                                  !.t = now, !.order_id = result.order_id]]
               /\ UNCHANGED response
       /\ UNCHANGED <<store, txn, quoting, auto_sync_running, syncs>>

\* the waiting UPDATE gets the row lock
ResumeUpdate(w) ==
    /\ patching[w].pc = "update_wait"
    /\ ~ShipmentLocked(w)
    /\ patching' = [patching EXCEPT ![w].pc = "count"]
    /\ UNCHANGED <<store, now, response, txn, quoting, auto_sync_running, syncs>>

\* SELECT COUNT(*), COUNT(*) FILTER (WHERE status = 'delivered') ... and the
\* test on the two counts
CountDelivered(w) ==
    LET x == patching[w]
    IN /\ x.pc = "count"
       /\ patching' = [patching EXCEPT ![w].pc =
                IF AllDelivered(ShipmentsSeenBy(x), x.order_id)
                THEN "mark" ELSE "commit"]
       /\ UNCHANGED <<store, now, response, txn, quoting, auto_sync_running,
                      syncs>>

\* UPDATE orders SET is_complete = TRUE, ...: takes the lock of the order row
MarkOrder(w) ==
    /\ patching[w].pc = "mark"
    /\ ~OrderLocked(w)
    /\ patching' = [patching EXCEPT ![w].pc = "commit", ![w].marked = TRUE]
    /\ UNCHANGED <<store, now, response, txn, quoting, auto_sync_running, syncs>>

\* the with get_db() block ends: conn.commit()
CommitPatch(w) ==
    LET x == patching[w]
    IN /\ x.pc = "commit"
       /\ order_shipments' = ShipmentsSeenBy(x)
       /\ orders' = IF x.marked THEN MarkComplete(orders, x.order_id, x.t)
                    ELSE orders
       /\ patching' = [patching EXCEPT ![w] =
                [IdlePatch EXCEPT !.shipment_id = x.shipment_id, !.p = x.p,
                                  !.order_id = x.order_id, !.marked = x.marked,
                                  !.outcome = "ok"]]
       /\ response' = Reply("update_shipment", x.shipment_id, 200, x.p.status)
       /\ UNCHANGED <<order_line_items, order_events, warehouse_mapping, now,
                      txn, quoting, auto_sync_running, syncs>>

-----------------------------------------------------------------------------
(* Initial states and requests *)

Init ==
    /\ orders = [o \in OrderIds |-> NoOrder]
    /\ order_line_items = <<>>
    /\ order_shipments = <<>>
    /\ order_events = EmptyBag
    /\ warehouse_mapping = DefaultMapping
    /\ now = 0
    /\ response = Reply("init", NULL, 200, None)
    /\ txn = [w \in Workers |-> IdleTxn]
    /\ quoting = IdleQuote
    /\ auto_sync_running = FALSE
    /\ syncs = [p \in SyncNames |-> IdleSync]
    /\ patching = [w \in Workers |-> IdlePatch]

\* the body of an update_checkpoint request that names a checkpoint
CheckpointUpdate(checkpoint) ==
    [checkpoint |-> checkpoint, source |-> "api", payment_amount |-> NULL]

\* the row after update_checkpoint was called, at times t, t + 1, ..., for
\* each checkpoint of the sequence names that is in the set chosen
RECURSIVE AdvancedRow(_, _, _, _)
AdvancedRow(o, names, chosen, t) ==
    IF names = <<>> THEN o
    ELSE IF Head(names) \in chosen
    THEN AdvancedRow(CheckpointRow(o, CheckpointUpdate(Head(names)), t),
                     Tail(names), chosen, t + 1)
    ELSE AdvancedRow(o, Tail(names), chosen, t)

\* the states after one reconcile of SnapTwo and one update_checkpoint call
\* for each checkpoint of any set of checkpoints
InitStatus ==
    \E chosen \in SUBSET valid_checkpoints :
        LET l == SyncLocals(DefaultMapping, SnapTwo)
            synced == UpsertOrder([o \in OrderIds |-> NoOrder], SnapTwo,
                                  l.slots, 0)
        IN /\ orders = [synced EXCEPT ![SnapTwo.id] =
                    AdvancedRow(@, Checkpoints, chosen, 1)]
           /\ order_line_items =
                    ReplaceLineItems(<<>>, DefaultMapping, l.order_id,
                                     l.line_items)
           /\ order_shipments = FanOut(<<>>, l.order_id, l.warehouses_list, 0)
           /\ order_events =
                    SetToBag({SyncEvent(l.order_id, l.sku_prefixes)}
                        \cup {CheckpointEvent(l.order_id, CheckpointUpdate(c)) :
                                c \in chosen})
           /\ warehouse_mapping = DefaultMapping
           /\ now = 1 + Cardinality(chosen)
           /\ response = Reply("init", NULL, 200, None)
           /\ txn = [w \in Workers |-> IdleTxn]
           /\ quoting = IdleQuote
           /\ auto_sync_running = FALSE
           /\ syncs = [p \in SyncNames |-> IdleSync]
           /\ patching = [w \in Workers |-> IdlePatch]

\* the store just after the first reconcile of SnapTwo, MaxAdvances
\* transactions before the horizon MaxNow (the origin of the clock is free)
InitFresh ==
    LET l == SyncLocals(DefaultMapping, SnapTwo)
        t == MaxNow - MaxAdvances - 1
    IN /\ orders = UpsertOrder([o \in OrderIds |-> NoOrder], SnapTwo, l.slots, t)
       /\ order_line_items =
                ReplaceLineItems(<<>>, DefaultMapping, l.order_id, l.line_items)
       /\ order_shipments = FanOut(<<>>, l.order_id, l.warehouses_list, t)
       /\ order_events = SetToBag({SyncEvent(l.order_id, l.sku_prefixes)})
       /\ warehouse_mapping = DefaultMapping
       /\ now = t + 1
       /\ response = Reply("sync_order_from_b2bwave", l.order_id, 200, SnapTwo)
       /\ txn = [w \in Workers |-> IdleTxn]
       /\ quoting = IdleQuote
       /\ auto_sync_running = FALSE
       /\ syncs = [p \in SyncNames |-> IdleSync]
       /\ patching = [w \in Workers |-> IdlePatch]

\* the store after the reconcile of SnapTwo and the delivery of its two
\* shipments, the second of which completed the order (the origin of the
\* clock is free)
InitDelivered ==
    LET l == SyncLocals(DefaultMapping, SnapTwo)
        created == FanOut(<<>>, l.order_id, l.warehouses_list, 0 - 3)
        first == UpdateShipments(created, ShipmentId(l.order_id, LI),
                                 [NoPatch EXCEPT !.status = "delivered"], 0 - 2)
        second == UpdateShipments(first, ShipmentId(l.order_id, CabinetStone),
                                  [NoPatch EXCEPT !.status = "delivered"], 0 - 1)
    IN /\ orders =
            RollUp(UpsertOrder([o \in OrderIds |-> NoOrder], SnapTwo, l.slots,
                               0 - 3),
                   second, l.order_id, 0 - 1)
       /\ order_line_items =
                ReplaceLineItems(<<>>, DefaultMapping, l.order_id, l.line_items)
       /\ order_shipments = second
       /\ order_events = SetToBag({SyncEvent(l.order_id, l.sku_prefixes)})
       /\ warehouse_mapping = DefaultMapping
       /\ now = 0
       /\ response = Reply("update_shipment",
                           ShipmentId(l.order_id, CabinetStone), 200,
                           "delivered")
       /\ txn = [w \in Workers |-> IdleTxn]
       /\ quoting = IdleQuote
       /\ auto_sync_running = FALSE
       /\ syncs = [p \in SyncNames |-> IdleSync]
       /\ patching = [w \in Workers |-> IdlePatch]

\* request bodies of update_checkpoint: the six names, payment_received with
\* an amount, and a name that is no checkpoint
CheckpointInputs ==
    {CheckpointUpdate(c) : c \in valid_checkpoints}
        \cup {[checkpoint |-> "payment_received", source |-> "api",
                payment_amount |-> Some(500)],
               [checkpoint |-> "shipped", source |-> "api",
                payment_amount |-> Some(500)]}

\* status parameters of set_order_status: the seven names and one other
StatusInputs == StatusNames \cup {"shipped"}

\* parameters of update_shipment
ShipmentPatches ==
    {[NoPatch EXCEPT !.status = st] :
        st \in Range(valid_statuses) \cup {None, "", "lost"}}
      \cup {[NoPatch EXCEPT !.tracking = "1Z", !.weight = Some(60),
                            !.quote_price = Some(120), !.ship_method = "LTL"],
            [NoPatch EXCEPT !.ship_method = "Rail"],
            [NoPatch EXCEPT !.status = "delivered", !.tracking = "1Z"]}

\* the requests that bear on completion: a shipment delivered, shipped or set
\* back, and the two last checkpoints advanced
DeliveryPatches ==
    {[NoPatch EXCEPT !.status = st] : st \in {"needs_order", "shipped", "delivered"}}

CompletionInputs == {CheckpointUpdate("bol_sent"), CheckpointUpdate("is_complete")}

\* the advances of the payment scenario: the first five checkpoints, the
\* payment with its amount
ScenarioInputs ==
    {CheckpointUpdate(Checkpoints[i]) : i \in {1, 3, 4, 5}}
        \cup {[checkpoint |-> "payment_received", source |-> "api",
                payment_amount |-> Some(500)]}

\* shipment ids requests name: those of order 7, and one no shipment has
ShipmentIds ==
    {ShipmentId(<<"7">>, LI), ShipmentId(<<"7">>, CabinetStone),
     ShipmentId(<<"8">>, LI)}

\* mappings an operator adds: a prefix that had none, and a prefix moved
MappingInputs ==
    {[sku_prefix |-> <<"x", "x">>, warehouse_name |-> DL],
     [sku_prefix |-> <<"G", "S", "P">>, warehouse_name |-> ROC]}

\* mappings to warehouses whose names differ in punctuation only
AlikeMappings ==
    {[sku_prefix |-> <<"x", "x">>, warehouse_name |-> CabinetHyphenStone],
     [sku_prefix |-> <<"x", "x">>, warehouse_name |-> GoBravura],
     [sku_prefix |-> <<"G", "S", "P">>, warehouse_name |-> CabinetHyphenStone]}

\* parameters of update_shipment: fields other than the status, a status, or
\* nothing
SetBackPatches ==
    {[NoPatch EXCEPT !.tracking = "1Z"],
     [NoPatch EXCEPT !.weight = Some(60), !.quote_price = Some(120)],
     [NoPatch EXCEPT !.status = "shipped"],
     [NoPatch EXCEPT !.status = "delivered"],
     NoPatch}

Reconcile(snapshots) ==
    \E order \in snapshots : sync_order_from_b2bwave(order)

AdvanceWith(updates) ==
    \E order_id \in OrderIds, update \in updates :
        update_checkpoint(order_id, update)

Advance == AdvanceWith(CheckpointInputs)

SetStatusWith(statuses) ==
    \E order_id \in OrderIds, status \in statuses :
        set_order_status(order_id, status, "web_ui")

SetStatus == SetStatusWith(StatusInputs)

DeleteOrder == \E order_id \in OrderIds : delete_order(order_id)

UpdateShipmentWith(patches) ==
    \E shipment_id \in ShipmentIds, p \in patches :
        update_shipment(shipment_id, p)

UpdateShipment == UpdateShipmentWith(ShipmentPatches)

GetOrder == \E order_id \in OrderIds : get_order(order_id)

AddMapping ==
    \E m \in MappingInputs : add_warehouse_mapping(m.sku_prefix, m.warehouse_name)

\* bodies of update_order: a slot corrected by hand, a name, nothing
OrderUpdateInputs ==
    {[NoOrderUpdate EXCEPT !.warehouse_1 = ROC],
     [NoOrderUpdate EXCEPT !.warehouse_2 = DL],
     [NoOrderUpdate EXCEPT !.customer_name = "Zed"],
     NoOrderUpdate}

UpdateOrder ==
    \E order_id \in OrderIds, update \in OrderUpdateInputs :
        update_order(order_id, update)

\* the SKUs the routing paths are asked about: every text of up to MaxSkuLen
\* characters over letters of both cases, a digit and the hyphen
SkuChars == {"G", "s", "P", "1", "-"}

SkuInputs == UNION {[1..n -> SkuChars] : n \in 1..MaxSkuLen}

ResolveSku == \E sku \in SkuInputs : resolve_sku(sku)

\* the carrier selection on its own: any weight, with and without items
SelectMethod ==
    \E weight \in 0..MaxWeight,
       items \in {<<>>, fetch_b2bwave_order(SnapTwo).line_items} :
        /\ response' =
                Reply("select_shipping_method", NULL, 200,
                      [weight |-> weight, items |-> items,
                       method |-> select_shipping_method(weight, items)])
        /\ UNCHANGED <<store, now, txn, calls>>

\* the lists of orders the order source returns to a cycle
FetchLists ==
    {<<SnapTwo, SnapOther>>, <<SnapOther, SnapMixed>>, <<SnapMixed>>}

GetCheckout(snapshots) ==
    \E order \in snapshots :
        \E quotes \in [QuotedWarehouses(order) -> QuoteOutcomes] :
            get_checkout_data(order, quotes)

-----------------------------------------------------------------------------
(* Specifications *)

\* every request of the order and shipment workflow
Next ==
    \/ Reconcile({SnapTwo, SnapMixed})
    \/ Advance
    \/ SetStatus
    \/ UpdateShipment

Spec == Init /\ [][Next]_vars

\* the status view read over every combination of the six checkpoints
NextStatus == GetOrder

SpecStatus == InitStatus /\ [][NextStatus]_vars

\* reconciles and shipment updates
NextShip ==
    \/ Reconcile({SnapTwo, SnapMixed})
    \/ UpdateShipment

SpecShip == Init /\ [][NextShip]_vars

\* a freshly reconciled order advanced checkpoint by checkpoint, and read
NextScenario ==
    \/ AdvanceWith(ScenarioInputs)
    \/ GetOrder

SpecScenario == InitFresh /\ [][NextScenario]_vars

\* every request that writes Events or removes them
NextAudit ==
    \/ Reconcile({SnapTwo, SnapOther})
    \/ AdvanceWith(CompletionInputs)
    \/ SetStatusWith({"needs_bol", "complete"})
    \/ UpdateShipmentWith(DeliveryPatches)
    \/ DeleteOrder

SpecAudit == Init /\ [][NextAudit]_vars

\* requests on a store that holds order 8 and never order 7
NextMissing ==
    \/ Reconcile({SnapOther})
    \/ AdvanceWith({u \in CheckpointInputs :
                        u.checkpoint \in {"bol_sent", "shipped"}})
    \/ SetStatusWith({"needs_bol", "shipped"})
    \/ UpdateShipment

SpecMissing == Init /\ [][NextMissing]_vars

\* reconciles, checkpoint advances and shipment updates: every request that
\* touches is_complete but the status override
NextNoOverride ==
    \/ Reconcile({SnapTwo, SnapMixed})
    \/ AdvanceWith(CompletionInputs)
    \/ UpdateShipmentWith(DeliveryPatches)

SpecNoOverride == Init /\ [][NextNoOverride]_vars

\* reconciles of every snapshot, under a mapping that operators change
NextFanOut ==
    \/ Reconcile({SnapTwo, SnapMixed, SnapOther, SnapFive})
    \/ AddMapping

SpecFanOut == Init /\ [][NextFanOut]_vars

\* reconciles and checkpoint advances
NextAdvance ==
    \/ Reconcile({SnapTwo, SnapOther})
    \/ Advance

SpecAdvance == Init /\ [][NextAdvance]_vars

\* the order requests: reconcile, advance, override, read
NextOrder ==
    \/ Reconcile({SnapTwo})
    \/ Advance
    \/ SetStatus
    \/ GetOrder

SpecOrder == Init /\ [][NextOrder]_vars

\* reconciles of an order and the checkout of the same order
NextCheckout ==
    \/ Reconcile({SnapTwo, SnapMixed, SnapStray})
    \/ GetCheckout({SnapTwo, SnapMixed, SnapStray})

SpecCheckout == Init /\ [][NextCheckout]_vars

\* reconciles, and orders edited by hand in between
NextSlots ==
    \/ Reconcile({SnapTwo, SnapMixed, SnapOther})
    \/ UpdateOrder

SpecSlots == Init /\ [][NextSlots]_vars

\* SKUs resolved by the three routing paths
NextRouter == ResolveSku

SpecRouter == Init /\ [][NextRouter]_vars

\* calls of the carrier selection
NextMethod == SelectMethod

SpecMethod == Init /\ [][NextMethod]_vars

\* one shipping calculation after another, request by request
NextQuoting ==
    \/ \E order \in {SnapTwo, SnapMixed, SnapStray, SnapLight} : StartQuote(order)
    \/ AppendUnknown
    \/ IssueRequest
    \/ SettleRequest
    \/ ReturnQuote

SpecQuoting == Init /\ [][NextQuoting]_vars

\* the poller's cycles
NextCycle ==
    \/ Wake
    \/ \E orders_list \in FetchLists : Fetch("auto", orders_list)
    \/ FetchFails("auto")
    \/ SyncOrder("auto")
    \/ SyncOrderFails("auto")
    \/ GmailSync
    \/ SquareSync

SpecCycle == Init /\ [][NextCycle]_vars

\* the poller's cycles and manual sync requests
NextPoller ==
    \/ Wake
    \/ ManualStart
    \/ \E p \in SyncNames, orders_list \in FetchLists : Fetch(p, orders_list)
    \/ \E p \in SyncNames : FetchFails(p)
    \/ \E p \in SyncNames : SyncOrder(p)
    \/ \E p \in SyncNames : SyncOrderFails(p)
    \/ GmailSync
    \/ SquareSync
    \/ ManualReturn

SpecPoller == Init /\ [][NextPoller]_vars

\* orders created by reconciles and deleted by the administrator
NextLifecycle ==
    \/ Reconcile({SnapTwo, SnapMixed, SnapOther})
    \/ DeleteOrder

SpecLifecycle == Init /\ [][NextLifecycle]_vars

\* an order reconciled, then shipment updates of several workers, interleaved
\* statement by statement
NextDeliver ==
    \/ Reconcile({SnapTwo})
    \/ \E w \in Workers :
        \/ \E shipment_id \in ShipmentIds, p \in DeliveryPatches :
                BeginPatch(w, shipment_id, p)
        \/ IssueUpdate(w)
        \/ ResumeUpdate(w)
        \/ CountDelivered(w)
        \/ MarkOrder(w)
        \/ CommitPatch(w)

SpecDeliver == Init /\ [][NextDeliver]_vars

\* reconciles under a mapping to which operators add warehouses with names
\* close to those it holds
NextAlike ==
    \/ Reconcile({SnapTwo, SnapMixed})
    \/ \E m \in AlikeMappings :
            add_warehouse_mapping(m.sku_prefix, m.warehouse_name)

SpecAlike == Init /\ [][NextAlike]_vars

\* a delivered order set back or forward by hand, and its shipments updated
NextSetBack ==
    \/ SetStatusWith({"needs_bol", "awaiting_shipment", "complete"})
    \/ UpdateShipmentWith(SetBackPatches)

SpecSetBack == InitDelivered /\ [][NextSetBack]_vars

\* reconcile calls of several workers, each order always with the same
\* snapshot
NextTwin ==
    \E w \in Workers :
        \/ \E order \in {SnapTwo, SnapUnrouted} : Begin(w, order)
        \/ Upsert(w)
        \/ Resume(w)
        \/ Items(w)
        \/ Check(w)
        \/ Insert(w)
        \/ Commit(w)

SpecTwin == Init /\ [][NextTwin]_vars

\* reconcile calls of several workers, interleaved statement by statement
NextConc ==
    \E w \in Workers :
        \/ \E order \in {SnapTwo, SnapMixed, SnapOther} : Begin(w, order)
        \/ Upsert(w)
        \/ Resume(w)
        \/ Items(w)
        \/ Check(w)
        \/ Insert(w)
        \/ Commit(w)

SpecConc == Init /\ [][NextConc]_vars

\* reconcile calls of several workers for one order of two warehouses, any
\* statement of which can raise
NextAtomic ==
    \E w \in Workers :
        \/ \E order \in {SnapTwo} : Begin(w, order)
        \/ Upsert(w)
        \/ Resume(w)
        \/ Items(w)
        \/ Check(w)
        \/ Insert(w)
        \/ Commit(w)
        \/ Fail(w)

SpecAtomic == Init /\ [][NextAtomic]_vars

-----------------------------------------------------------------------------
(* Properties of the order status view *)

\* the precedence list of the status view: each status with its condition
StatusRules(o) ==
    << <<"complete", o.is_complete>>,
       <<"awaiting_shipment", o.bol_sent /\ ~o.is_complete>>,
       <<"needs_bol", o.warehouse_confirmed /\ ~o.bol_sent>>,
       <<"awaiting_warehouse", o.sent_to_warehouse /\ ~o.warehouse_confirmed>>,
       <<"needs_warehouse_order", o.payment_received /\ ~o.sent_to_warehouse>>,
       <<"awaiting_payment", o.payment_link_sent /\ ~o.payment_received>>,
       <<"needs_payment_link", TRUE>> >>

\* the status of the first rule of the list whose condition holds
FirstMatch(o) ==
    LET rules == StatusRules(o)
        first == CHOOSE i \in DOMAIN rules :
                    rules[i][2] /\ \A j \in 1..(i - 1) : ~rules[j][2]
    IN rules[first][1]

\* C1: whatever the six checkpoint values of an order, the status read for
\* it is one of the seven status names, and it is the status of the first
\* rule in precedence order (complete, awaiting_shipment, needs_bol,
\* awaiting_warehouse, needs_warehouse_order, awaiting_payment,
\* needs_payment_link) whose condition the checkpoints satisfy.
C1_StatusIsFirstMatch ==
    (response.op = "get_order" /\ response.code = 200) =>
        /\ response.arg \in StatusNames
        /\ response.arg = FirstMatch(orders[response.id])

\* the view was read for an order whose checkpoints satisfy two rules at
\* once: bol_sent and sent_to_warehouse set, warehouse_confirmed not
C1_ReadWithTwoRulesMatching ==
    /\ response.op = "get_order"
    /\ response.code = 200
    /\ orders[response.id].bol_sent
    /\ orders[response.id].sent_to_warehouse
    /\ ~orders[response.id].warehouse_confirmed
    /\ ~orders[response.id].is_complete
    /\ response.arg = "awaiting_shipment"

-----------------------------------------------------------------------------
(* Properties of the shipment roll-up *)

\* the step is an accepted update_shipment that supplied this status
ShipmentStatusSet(status) ==
    /\ now' # now
    /\ response'.op = "update_shipment"
    /\ response'.code = 200
    /\ response'.arg = status

\* indexes of the order's rows in a shipments table
ShipmentsOf(tbl, order_id) == {i \in DOMAIN tbl : tbl[i].order_id = order_id}

\* C2: when an accepted update_shipment sets a shipment to delivered and all
\* shipments of its order are then delivered, the order's is_complete is true
\* after the call; when some other shipment of the order is not delivered and
\* is_complete was false, it is still false after the call.
C2_RollUpOnDelivered ==
    [][ShipmentStatusSet("delivered") =>
        \A i \in DOMAIN order_shipments' :
            order_shipments'[i].shipment_id = response'.id =>
                LET order_id == order_shipments'[i].order_id
                    rest == {j \in ShipmentsOf(order_shipments', order_id) :
                                order_shipments'[j].status # "delivered"}
                IN /\ rest = {} => orders'[order_id].is_complete
                   /\ (rest # {} /\ ~orders[order_id].is_complete)
                        => ~orders'[order_id].is_complete]_vars

\* the second of an order's two shipments was set to delivered and the
\* order is complete
C2_LastOfTwoDelivered ==
    /\ response.op = "update_shipment"
    /\ response.code = 200
    /\ response.arg = "delivered"
    /\ Cardinality(ShipmentsOf(order_shipments, <<"7">>)) = 2
    /\ \A i \in ShipmentsOf(order_shipments, <<"7">>) :
            order_shipments[i].status = "delivered"
    /\ orders[<<"7">>].is_complete

\* C3 as stated: without the status override, an order is complete exactly
\* when it has at least one shipment and all of its shipments are delivered.
C3_CompleteIffAllDelivered ==
    \A order_id \in OrderIds :
        orders[order_id] # NoOrder =>
            (orders[order_id].is_complete
                <=> AllDelivered(order_shipments, order_id))

\* C3: without the status override, an order that has at least one shipment
\* and all of its shipments delivered is complete.
C3_AllDeliveredIsComplete ==
    \A order_id \in OrderIds :
        (orders[order_id] # NoOrder /\ AllDelivered(order_shipments, order_id))
            => orders[order_id].is_complete

\* an order with shipments, all delivered, that the roll-up completed while
\* no checkpoint before is_complete was set
C3_CompletedByRollUp ==
    \E order_id \in OrderIds :
        /\ orders[order_id] # NoOrder
        /\ AllDelivered(order_shipments, order_id)
        /\ orders[order_id].is_complete
        /\ ~orders[order_id].bol_sent
        /\ orders[order_id].completed_at = Some(now - 1)

-----------------------------------------------------------------------------
(* Properties of the shipment status *)

\* C4 as stated: no step moves the status of a shipment to an earlier one of
\* needs_order, at_warehouse, needs_bol, ready_ship, shipped, delivered.
C4_StatusForwardOnly ==
    [][\A i \in DOMAIN order_shipments :
        IndexOf(valid_statuses, order_shipments'[i].status)
            >= IndexOf(valid_statuses, order_shipments[i].status)]_vars

\* C4: an accepted update_shipment that supplies a status leaves the shipment
\* with exactly that status, earlier or later than the one it had; every
\* other step leaves the status of every shipment as it was.
C4_StatusIsTheOneSupplied ==
    [][\A i \in DOMAIN order_shipments :
        IF /\ now' # now
           /\ response'.op = "update_shipment"
           /\ response'.code = 200
           /\ response'.id = order_shipments[i].shipment_id
           /\ response'.arg # None
        THEN order_shipments'[i].status = response'.arg
        ELSE order_shipments'[i].status = order_shipments[i].status]_vars

\* a shipment that had been delivered was set back to needs_order
C4_DeliveredSetBack ==
    /\ response.op = "update_shipment"
    /\ response.code = 200
    /\ response.arg = "needs_order"
    /\ \E i \in DOMAIN order_shipments :
        /\ order_shipments[i].shipment_id = response.id
        /\ order_shipments[i].status = "needs_order"
        /\ order_shipments[i].delivered_at # NULL

-----------------------------------------------------------------------------
(* Properties of the reconciler *)

\* the order's rows of a table, in table order
RowsOf(tbl, order_id) == SelectSeq(tbl, LAMBDA r : r.order_id = order_id)

\* the shipment identifiers of the order, in table order
ShipmentIdsOf(tbl, order_id) ==
    [i \in DOMAIN RowsOf(tbl, order_id) |-> RowsOf(tbl, order_id)[i].shipment_id]

\* C5: a reconcile of the snapshot that the reconcile just before it
\* processed, the mapping unchanged in between, leaves the order's line items
\* and the identifiers of its shipments as they were.
C5_SecondReconcileChangesNothing ==
    [][(/\ response.op = "sync_order_from_b2bwave"
        /\ now' # now
        /\ response'.op = "sync_order_from_b2bwave"
        /\ response'.arg = response.arg)
       => /\ RowsOf(order_line_items', response.id)
                = RowsOf(order_line_items, response.id)
          /\ ShipmentIdsOf(order_shipments', response.id)
                = ShipmentIdsOf(order_shipments, response.id)]_vars

\* the five-warehouse snapshot was reconciled twice in a row under the
\* default mapping
C5_ReconciledTwice ==
    /\ response.op = "sync_order_from_b2bwave"
    /\ response.arg = SnapFive
    /\ now = 2
    /\ warehouse_mapping = DefaultMapping
    /\ CopiesIn(SyncEvent(SnapFive.id,
                          ExtractSkuPrefixes(SnapFive.order_products, <<>>)),
                order_events) = 2

\* C6: while reconciles of several workers run concurrently, on the same
\* order or on different ones, no two rows of order_shipments have the same
\* shipment identifier.
C6_NoDuplicateShipmentId ==
    \A i, j \in DOMAIN order_shipments :
        i # j => order_shipments[i].shipment_id # order_shipments[j].shipment_id

\* two workers reconciled the same order, one of them having waited for the
\* other's transaction, and both committed
C6_BothCommitted ==
    \E w, v \in Workers :
        /\ w # v
        /\ txn[w].pc = "idle" /\ txn[w].outcome = "ok"
        /\ txn[v].pc = "idle" /\ txn[v].outcome = "ok"
        /\ txn[w].order.id = txn[v].order.id
        /\ txn[v].waited
        /\ Len(RowsOf(order_shipments, txn[w].order.id)) >= 2

\* C7: a reconcile leaves every shipment that exists when it starts exactly
\* as it was, status, tracking and every other column.
C7_ExistingShipmentsUntouched ==
    [][(now' # now /\ response'.op = "sync_order_from_b2bwave")
       => \A i \in DOMAIN order_shipments :
            /\ i \in DOMAIN order_shipments'
            /\ order_shipments'[i] = order_shipments[i]]_vars

\* a reconcile found a shipment of its order that had been moved on, and
\* created another one next to it
C7_FoundOneCreatedOne ==
    /\ response.op = "sync_order_from_b2bwave"
    /\ \E i, j \in DOMAIN order_shipments :
        /\ order_shipments[i].order_id = response.id
        /\ order_shipments[i].status # "needs_order"
        /\ order_shipments[j].order_id = response.id
        /\ order_shipments[j].created_at = Some(now - 1)
        /\ order_shipments[i].created_at # order_shipments[j].created_at

\* C8 as stated: after a reconcile, for every warehouse that is the resolved
\* warehouse of at least one line item of the order, however many distinct
\* warehouses there are, the order has exactly one shipment for that warehouse.
C8_OneShipmentPerWarehouse ==
    response.op = "sync_order_from_b2bwave" =>
        \A r \in Range(RowsOf(order_line_items, response.id)) :
            r.warehouse # NULL =>
                Cardinality({i \in ShipmentsOf(order_shipments, response.id) :
                                order_shipments[i].warehouse = r.warehouse}) = 1

-----------------------------------------------------------------------------
(* Properties of the checkpoints *)

\* C9 as stated: with reconciles and checkpoint advances only, no checkpoint
\* of an order is true while an earlier one of the precedence is false.
C9_CheckpointsMonotone ==
    \A order_id \in OrderIds :
        orders[order_id] # NoOrder =>
            \A i, j \in DOMAIN Checkpoints :
                (i < j /\ orders[order_id][Checkpoints[j]])
                    => orders[order_id][Checkpoints[i]]

\* C9: an accepted checkpoint advance sets the checkpoint it names to true,
\* whatever the earlier checkpoints are, and leaves the other five as they
\* were; no other step changes a checkpoint, so none goes back to false.
C9_AdvanceSetsTheNamedOne ==
    [][\A order_id \in OrderIds :
        orders[order_id] # NoOrder =>
            \A c \in Range(Checkpoints) :
                IF /\ now' # now
                   /\ response'.op = "update_checkpoint"
                   /\ response'.code = 200
                   /\ response'.id = order_id
                   /\ response'.arg = c
                THEN orders'[order_id][c]
                ELSE orders'[order_id][c] = orders[order_id][c]]_vars

\* bol_sent was advanced on an order with no payment received
C9_BolSentBeforePayment ==
    /\ response.op = "update_checkpoint"
    /\ response.code = 200
    /\ response.arg = "bol_sent"
    /\ orders[response.id].bol_sent
    /\ ~orders[response.id].payment_received
    /\ ~orders[response.id].warehouse_confirmed

\* C10: update_checkpoint with a name that is none of the six checkpoints is
\* answered 400 and changes no table, whether or not the order exists.
C10_InvalidNameRejected ==
    [][(/\ response'.op = "update_checkpoint"
        /\ response'.arg \notin Range(Checkpoints))
       => /\ response'.code = 400
          /\ UNCHANGED store]_vars

\* an invalid name was rejected for an order that exists and has already
\* been advanced
C10_RejectedOnExistingOrder ==
    /\ response.op = "update_checkpoint"
    /\ response.code = 400
    /\ response.arg = "shipped"
    /\ orders[response.id] # NoOrder
    /\ orders[response.id].payment_link_sent

-----------------------------------------------------------------------------
(* Properties of the checkpoint advance *)

\* the step is an accepted update_checkpoint of this order with this body
Advanced(order_id, update) ==
    /\ now' # now
    /\ response' = Reply("update_checkpoint", order_id, 200, update.checkpoint)
    /\ CopiesIn(CheckpointEvent(order_id, update), order_events')
            = CopiesIn(CheckpointEvent(order_id, update), order_events) + 1

\* C11 as stated: update_checkpoint for a checkpoint that is already true on
\* an existing order leaves every stored field of the order as it was and
\* appends exactly one Event.
C11_ReadvanceIsNoOp ==
    [][\A order_id \in OrderIds, update \in CheckpointInputs :
        (/\ Advanced(order_id, update)
         /\ orders[order_id] # NoOrder
         /\ update.checkpoint \in Range(Checkpoints)
         /\ orders[order_id][update.checkpoint])
        => /\ orders'[order_id] = orders[order_id]
           /\ BagCardinality(order_events') = BagCardinality(order_events) + 1]_vars

\* C12: an accepted advance of payment_received with an amount, on an order
\* whose order_total is known, stores shipping_cost = amount - order_total;
\* and an order with order_total 450 whose first five checkpoints were
\* advanced in precedence order, the payment with amount 500, reads
\* awaiting_shipment and has shipping_cost 50.
C12_ShippingCostFromPayment ==
    [][/\ \A order_id \in OrderIds, update \in ScenarioInputs :
            (/\ Advanced(order_id, update)
             /\ update.checkpoint = "payment_received"
             /\ update.payment_amount # NULL
             /\ orders[order_id].order_total # 0)
            => orders'[order_id].shipping_cost
                    = Some(update.payment_amount[1] - orders[order_id].order_total)
       /\ \A order_id \in OrderIds :
            LET o == orders'[order_id]
            IN (/\ response' = Reply("get_order", order_id, 200, response'.arg)
                /\ o.order_total = 450
                /\ o.payment_amount = Some(500)
                /\ o.payment_link_sent_at # NULL
                /\ o.payment_received_at # NULL
                /\ o.sent_to_warehouse_at # NULL
                /\ o.warehouse_confirmed_at # NULL
                /\ o.bol_sent_at # NULL
                /\ o.payment_link_sent_at[1] < o.payment_received_at[1]
                /\ o.payment_received_at[1] < o.sent_to_warehouse_at[1]
                /\ o.sent_to_warehouse_at[1] < o.warehouse_confirmed_at[1]
                /\ o.warehouse_confirmed_at[1] < o.bol_sent_at[1]
                /\ ~o.is_complete)
               => /\ response'.arg = "awaiting_shipment"
                  /\ o.shipping_cost = Some(50)]_vars

\* the order of the scenario was read after its five advances
C12_ScenarioRead ==
    /\ response.op = "get_order"
    /\ response.code = 200
    /\ response.arg = "awaiting_shipment"
    /\ orders[response.id].order_total = 450
    /\ orders[response.id].payment_amount = Some(500)
    /\ orders[response.id].shipping_cost = Some(50)
    /\ orders[response.id].bol_sent
    /\ orders[response.id].bol_sent_at = Some(now - 1)
    /\ orders[response.id].payment_link_sent_at = Some(now - 5)

-----------------------------------------------------------------------------
(* Properties of the status override *)

\* the status names from the earliest to the latest
StatusLadder ==
    <<"needs_payment_link", "awaiting_payment", "needs_warehouse_order",
      "awaiting_warehouse", "needs_bol", "awaiting_shipment", "complete">>

\* the step is an accepted set_order_status of this order to this status
StatusSet(order_id, status) ==
    /\ now' # now
    /\ response' = Reply("set_order_status", order_id, 200, status)

\* C13: an accepted set_order_status(s), whatever the order's checkpoints
\* were, leaves exactly the checkpoints before s's position true and the
\* others false, so that the derived status is s, and appends exactly one
\* Event, the status_change Event of s.
C13_OverrideSetsExactPattern ==
    [][\A order_id \in OrderIds, k \in DOMAIN StatusLadder :
        StatusSet(order_id, StatusLadder[k]) =>
            /\ \A i \in DOMAIN Checkpoints :
                    orders'[order_id][Checkpoints[i]] = (i < k)
            /\ current_status(orders'[order_id]) = StatusLadder[k]
            /\ BagCardinality(order_events') = BagCardinality(order_events) + 1
            /\ \E e \in BagToSet(order_events') :
                    /\ CopiesIn(e, order_events') = CopiesIn(e, order_events) + 1
                    /\ e.order_id = order_id
                    /\ e.event_type = "status_change"]_vars

\* an order that had been completed was set back to needs_bol
C13_SetBackToNeedsBol ==
    /\ response.op = "set_order_status"
    /\ response.code = 200
    /\ response.arg = "needs_bol"
    /\ orders[response.id].completed_at # NULL
    /\ orders[response.id].warehouse_confirmed
    /\ ~orders[response.id].bol_sent
    /\ ~orders[response.id].is_complete

\* C14 as stated: every accepted set_order_status appends an Event whose
\* data record the derived status the order had before the call and the new
\* status.
C14_OverrideLogsPreviousAndNew ==
    [][\A order_id \in OrderIds, status \in StatusNames :
        StatusSet(order_id, status) =>
            \E e \in BagToSet(order_events') :
                /\ CopiesIn(e, order_events') = CopiesIn(e, order_events) + 1
                /\ e.order_id = order_id
                /\ e.event_data.new_status = status
                /\ \E field \in DOMAIN e.event_data \ {"new_status"} :
                        e.event_data[field] = current_status(orders[order_id])]_vars

-----------------------------------------------------------------------------
(* Properties of the Event log *)

\* the number of Events of the order
EventCount(events, order_id) ==
    LET of == {e \in BagToSet(events) : e.order_id = order_id}
    IN BagCardinality([e \in of |-> CopiesIn(e, events)])

\* C15 as stated: every step that changes a checkpoint of an existing order
\* or the status of a shipment appends at least one Event of that order.
C15_EveryTransitionLogged ==
    [][/\ \A order_id \in OrderIds :
            (/\ orders[order_id] # NoOrder
             /\ orders'[order_id] # NoOrder
             /\ \E c \in Range(Checkpoints) :
                    orders'[order_id][c] # orders[order_id][c])
            => EventCount(order_events', order_id)
                    > EventCount(order_events, order_id)
       /\ \A i \in DOMAIN order_shipments :
            (/\ i \in DOMAIN order_shipments'
             /\ order_shipments'[i].shipment_id = order_shipments[i].shipment_id
             /\ order_shipments'[i].status # order_shipments[i].status)
            => EventCount(order_events', order_shipments[i].order_id)
                    > EventCount(order_events, order_shipments[i].order_id)]_vars

\* C16 as stated: no step removes or changes an Event, delete_order included.
C16_EventsNeverRemoved ==
    [][\A e \in BagToSet(order_events) :
        CopiesIn(e, order_events') >= CopiesIn(e, order_events)]_vars

\* C16: reconcile, advance, set-status and shipment update remove and change
\* no Event; delete_order(o) removes the Events of o, all of them, and leaves
\* every Event of another order in the log.
C16_EventsRemovedOnlyWithTheirOrder ==
    [][\A e \in BagToSet(order_events) :
        IF response'.op = "delete_order" /\ response'.id = e.order_id
        THEN CopiesIn(e, order_events') = 0
        ELSE CopiesIn(e, order_events') >= CopiesIn(e, order_events)]_vars

\* order 7 was reconciled after order 8 and then deleted: the one Event left
\* is the sync Event of order 8
C16_DeletedNextToAnother ==
    /\ response.op = "delete_order"
    /\ response.id = <<"7">>
    /\ now = 2
    /\ orders[<<"7">>] = NoOrder
    /\ orders[<<"8">>] # NoOrder
    /\ orders[<<"8">>].updated_at = Some(0)
    /\ \A i \in DOMAIN order_shipments : order_shipments[i].updated_at = Some(0)
    /\ BagCardinality(order_events) = 1
    /\ EventCount(order_events, <<"8">>) = 1

-----------------------------------------------------------------------------
(* Properties of the validation and of requests on what does not exist *)

\* C17 as stated: the status of every shipment is one of the six names and
\* its ship_method is unset or one of the enumeration.
C17_ShipmentFieldsValid ==
    \A i \in DOMAIN order_shipments :
        /\ order_shipments[i].status \in Range(valid_statuses)
        /\ order_shipments[i].ship_method
                \in {"LTL", "Pirateship", "Pickup", "BoxTruck", "LiDelivery", None}

\* C18 as stated: update_checkpoint and set_order_status on an order that
\* does not exist, and update_shipment on a shipment that does not exist, are
\* answered not-found whatever the parameters, and change no table.
C18_MissingIsNotFound ==
    [][/\ \A order_id \in OrderIds, update \in CheckpointInputs :
            (orders[order_id] = NoOrder /\ update_checkpoint(order_id, update))
                => (response'.code = 404 /\ UNCHANGED store)
       /\ \A order_id \in OrderIds, status \in StatusInputs :
            (orders[order_id] = NoOrder
                /\ set_order_status(order_id, status, "web_ui"))
                => (response'.code = 404 /\ UNCHANGED store)
       /\ \A shipment_id \in ShipmentIds, p \in ShipmentPatches :
            (~ShipmentExists(order_shipments, shipment_id)
                /\ update_shipment(shipment_id, p))
                => (response'.code = 404 /\ UNCHANGED store)]_vars

\* C18: update_checkpoint and set_order_status on an order that does not
\* exist, and update_shipment on a shipment that does not exist, change no
\* table and append no Event.  The answer is the validation error 400 when
\* the checkpoint name, status or ship method is invalid, ok for an
\* update_shipment that supplies no field, and not-found 404 otherwise.
C18_MissingChangesNothing ==
    [][/\ \A order_id \in OrderIds, update \in CheckpointInputs :
            (orders[order_id] = NoOrder /\ update_checkpoint(order_id, update))
                => /\ UNCHANGED store
                   /\ response'.code =
                        IF update.checkpoint \in Range(Checkpoints) THEN 404
                        ELSE 400
       /\ \A order_id \in OrderIds, status \in StatusInputs :
            (orders[order_id] = NoOrder
                /\ set_order_status(order_id, status, "web_ui"))
                => /\ UNCHANGED store
                   /\ response'.code =
                        IF status \in Range(StatusLadder) THEN 404 ELSE 400
       /\ \A shipment_id \in ShipmentIds, p \in ShipmentPatches :
            (~ShipmentExists(order_shipments, shipment_id)
                /\ update_shipment(shipment_id, p))
                => /\ UNCHANGED store
                   /\ response'.code =
                        IF \/ p.status \notin Range(valid_statuses) \cup {None, ""}
                           \/ p.ship_method \notin
                                {"LTL", "Pirateship", "Pickup", "BoxTruck",
                                 "LiDelivery", None, ""}
                        THEN 400
                        ELSE IF NoUpdates(p) THEN 200
                        ELSE 404]_vars

\* a shipment update with valid fields named a shipment that does not exist,
\* next to an order that does
C18_ShipmentNotFound ==
    /\ response.op = "update_shipment"
    /\ response.code = 404
    /\ response.arg = "delivered"
    /\ ~ShipmentExists(order_shipments, response.id)
    /\ orders[<<"8">>] # NoOrder
    /\ order_shipments # <<>>

-----------------------------------------------------------------------------
(* Properties of the checkout *)

\* the line items of the priced order, over all groups of the result
PricedItems(result) ==
    UNION {Range(result.shipments[i].items) : i \in DOMAIN result.shipments}

\* the stored line items of the order, as the checkout would read them
StoredItems(order_id) ==
    {[sku |-> r.sku, quantity |-> r.quantity, price |-> r.price] :
        r \in Range(RowsOf(order_line_items, order_id))}

\* the groups of the result that hold the item
GroupsHolding(result, item) ==
    {i \in DOMAIN result.shipments : item \in Range(result.shipments[i].items)}

\* C19: when the checkout prices an order whose stored line items are the ones
\* it prices, every stored line item without a warehouse (no prefix of the
\* warehouse mapping matched its SKU) is in the 'UNKNOWN' group of the result
\* and in no other, that group has a failed quote and shipping cost 0, the
\* item's price times quantity is within total_items, and no shipment of the
\* order has an unset warehouse.
C19_UnroutedItemIsUnknownGroup ==
    (/\ response.op = "get_checkout_data"
     /\ response.code = 200
     /\ orders[response.id] # NoOrder
     /\ StoredItems(response.id) = PricedItems(response.arg))
    => \A r \in Range(RowsOf(order_line_items, response.id)) :
          r.warehouse = NULL
          => LET item == [sku |-> r.sku, quantity |-> r.quantity,
                          price |-> r.price]
                 result == response.arg
             IN /\ GroupsHolding(result, item) # {}
                /\ \A i \in GroupsHolding(result, item) :
                      /\ result.shipments[i].warehouse = UNKNOWN
                      /\ result.shipments[i].quote.success = FALSE
                      /\ result.shipments[i].shipping_cost = 0
                /\ result.total_items >= r.price * r.quantity
                /\ \A k \in ShipmentsOf(order_shipments, response.id) :
                      order_shipments[k].warehouse # NULL

RECURSIVE PriceTimesQuantity(_)
\* price times quantity, summed over a list of line items
PriceTimesQuantity(items) ==
    IF items = <<>> THEN 0
    ELSE Head(items).price * Head(items).quantity
            + PriceTimesQuantity(Tail(items))

RECURSIVE ItemsOfGroups(_)
\* price times quantity, summed over the items of every group
ItemsOfGroups(shipments) ==
    IF shipments = <<>> THEN 0
    ELSE PriceTimesQuantity(Head(shipments).items)
            + ItemsOfGroups(Tail(shipments))

RECURSIVE CostOfSucceeded(_)
\* the shipping costs of the groups whose quote succeeded, summed
CostOfSucceeded(shipments) ==
    IF shipments = <<>> THEN 0
    ELSE (IF Head(shipments).quote.success
          THEN Head(shipments).shipping_cost ELSE 0)
            + CostOfSucceeded(Tail(shipments))

\* C20: in every result of the shipping calculation, grand_total is
\* total_items plus total_shipping, total_shipping is the sum of the shipping
\* costs of the groups whose quote succeeded, and total_items is the sum of
\* price times quantity over all line items, those of failed groups included.
C20_TotalsAddUp ==
    (response.op = "get_checkout_data" /\ response.code = 200)
    => LET result == response.arg
       IN /\ result.grand_total = result.total_items + result.total_shipping
          /\ result.total_shipping = CostOfSucceeded(result.shipments)
          /\ result.total_items = ItemsOfGroups(result.shipments)

-----------------------------------------------------------------------------
(* Properties of the carrier selection and of the quotes *)

\* C21: select_shipping_method answers 'small_package' for every weight below
\* 70 lb and 'ltl' for every weight of 70 lb or more, whatever items it is
\* given.
C21_MethodByWeightAlone ==
    response.op = "select_shipping_method"
    => response.arg.method =
            IF response.arg.weight < 70 THEN "small_package" ELSE "ltl"

\* the selection was asked about exactly 70 lb, with items, and answered ltl
C21_AtTheLimit ==
    /\ response.op = "select_shipping_method"
    /\ response.arg.weight = 70
    /\ response.arg.items # <<>>
    /\ response.arg.method = "ltl"

\* C22: when an order has a first group of 60 lb (two units) and a second of
\* 90 lb (three units), the first is quoted by the small-package carrier and
\* the second by the LTL carrier; and when the second's quote fails while the
\* first's succeeds, the second has shipping cost 0 and total_shipping is the
\* first's amount.
C22_LightGroupGoesSmallPackage ==
    (/\ response.op = "get_checkout_data"
     /\ Len(response.arg.shipments) = 2
     /\ SumWeight(response.arg.shipments[1].items) = 60
     /\ SumWeight(response.arg.shipments[2].items) = 90)
    => LET A == response.arg.shipments[1]
           B == response.arg.shipments[2]
       IN /\ A.shipping_method = "small_package"
          /\ B.shipping_method = "ltl"
          /\ (A.quote.success /\ ~B.quote.success)
                => /\ B.shipping_cost = 0
                   /\ response.arg.total_shipping = A.shipping_cost

\* C23: whatever the quote requests of a shipping calculation answer, the
\* result has one entry per group of the order's line items, in their order
\* and with their items; an entry whose quote failed has shipping cost 0;
\* and every entry is the one its group and its own quote give, whatever the
\* other requests answered.
C23_FailedQuoteDoesNotAbort ==
    [][(quoting.pc = "loop" /\ quoting'.pc = "idle")
        => LET groups == group_items_by_warehouse(quoting.line_items)
               result == response'.arg
           IN /\ response'.op = "get_checkout_data"
              /\ Len(result.shipments) = Len(groups)
              /\ \A i \in DOMAIN groups :
                    /\ result.shipments[i].warehouse = groups[i].warehouse
                    /\ result.shipments[i].items = groups[i].items
                    /\ ~result.shipments[i].quote.success
                            => result.shipments[i].shipping_cost = 0
                    /\ result.shipments[i] =
                            ShipmentQuote(groups[i], result.shipments[i].quote)
              /\ result.total_shipping = CostOfSucceeded(result.shipments)]_vars

\* a result whose first group's quote failed and whose second group's quote
\* succeeded with a price
C23_FailedThenQuoted ==
    /\ response.op = "get_checkout_data"
    /\ Len(response.arg.shipments) = 2
    /\ response.arg.shipments[1].warehouse # UNKNOWN
    /\ ~response.arg.shipments[1].quote.success
    /\ response.arg.shipments[2].quote.success
    /\ response.arg.shipments[2].shipping_cost > 0
    /\ response.arg.total_shipping = response.arg.shipments[2].shipping_cost

\* the warehouses of the first n groups that a carrier is asked about
QuotedAmong(groups, n) ==
    LET asked == SelectSeq(SubSeq(groups, 1, n),
                           LAMBDA g : g.warehouse # UNKNOWN)
    IN [j \in DOMAIN asked |-> asked[j].warehouse]

-----------------------------------------------------------------------------
(* Properties of the warehouse routing *)

\* C25: when the checkout prices an order whose stored line items are the
\* ones it prices, every line item is in the group of the warehouse that the
\* reconcile stored on it, and in the 'UNKNOWN' group exactly when the
\* reconcile stored no warehouse on it.
C25_CheckoutGroupsAsReconcileRoutes ==
    (/\ response.op = "get_checkout_data"
     /\ response.code = 200
     /\ orders[response.id] # NoOrder
     /\ StoredItems(response.id) = PricedItems(response.arg))
    => \A r \in Range(RowsOf(order_line_items, response.id)) :
          LET item == [sku |-> r.sku, quantity |-> r.quantity,
                       price |-> r.price]
          IN \A i \in GroupsHolding(response.arg, item) :
                response.arg.shipments[i].warehouse =
                    IF r.warehouse = NULL THEN UNKNOWN ELSE r.warehouse

RECURSIVE StripTrailingDigits(_)
\* the text without the digits at its end
StripTrailingDigits(s) ==
    IF s = <<>> \/ ~IsDigit(s[Len(s)]) THEN s
    ELSE StripTrailingDigits(SubSeq(s, 1, Len(s) - 1))

\* C26: for every SKU, each routing path (reconcile's line item look-up,
\* db_helpers.get_warehouse_for_sku, checkout.get_warehouse_for_sku) looks
\* up the same key: the text before the first hyphen, or the whole SKU when
\* it has no hyphen, without its trailing digits, upper-cased.
C26_OnePrefixOnEveryPath ==
    response.op = "resolve_sku"
    => LET key == UpperS(StripTrailingDigits(SplitFirst(response.id)))
       IN /\ response.arg.reconcile.prefix = key
          /\ response.arg.db_helpers.prefix = key
          /\ response.arg.checkout.prefix = key

\* the four warehouse slots of an order row
Slots(o) == <<o.warehouse_1, o.warehouse_2, o.warehouse_3, o.warehouse_4>>

\* C27: a reconcile of an order that exists leaves every warehouse slot that
\* is set as it is, and gives every empty slot the warehouse the reconcile
\* resolved for it.
C27_SetSlotsSurviveResync ==
    [][\A order \in {SnapTwo, SnapMixed, SnapOther} :
          (orders[order.id] # NoOrder /\ sync_order_from_b2bwave(order))
          => \A k \in 1..4 :
                Slots(orders'[order.id])[k] =
                    IF Slots(orders[order.id])[k] # NULL
                    THEN Slots(orders[order.id])[k]
                    ELSE SyncLocals(warehouse_mapping, order).slots[k]]_vars

\* an order whose first slot was set by hand to a warehouse that no reconcile
\* resolves first was reconciled again, and its first slot is as set by hand
C27_HandSetSlotKept ==
    /\ response.op = "sync_order_from_b2bwave"
    /\ response.id = <<"7">>
    /\ orders[<<"7">>].warehouse_1 = ROC
    /\ SyncLocals(warehouse_mapping, response.arg).slots[1] = LI
    /\ EventCount(order_events, <<"7">>) >= 2

-----------------------------------------------------------------------------
(* Properties of the reconcile transaction *)

\* C28: every step of the reconcile calls either leaves the tables as they
\* are, or is the commit of one call with all of its writes: the order row
\* upserted, the order's line items replaced, the sync Event appended and a
\* shipment present for every warehouse of the call; and a call that ends in
\* an error leaves the tables as they are.
C28_ReconcileAllOrNothing ==
    [][/\ \/ UNCHANGED store
          \/ \E w \in Workers :
                LET x == txn[w]
                IN /\ txn'[w].pc = "idle" /\ txn'[w].outcome = "ok"
                   /\ orders' = UpsertOrder(orders, x.order, x.l.slots, x.t)
                   /\ order_line_items' =
                        ReplaceLineItems(order_line_items, warehouse_mapping,
                                         x.l.order_id, x.l.line_items)
                   /\ order_events' = order_events
                        (+) SetToBag({SyncEvent(x.l.order_id, x.l.sku_prefixes)})
                   /\ \A k \in DOMAIN x.l.warehouses_list :
                        ShipmentExists(order_shipments',
                            ShipmentId(x.l.order_id, x.l.warehouses_list[k]))
       /\ \A w \in Workers :
            (txn[w].pc # "idle" /\ txn'[w].pc = "idle"
                /\ txn'[w].outcome = "error")
            => UNCHANGED store]_vars

\* a call failed in its fan-out, after its order row, its line items and its
\* sync Event were written, and the tables hold nothing of it
C28_FailedInFanOut ==
    \E w \in Workers :
        /\ txn[w].pc = "idle"
        /\ txn[w].outcome = "error"
        /\ txn[w].failed_at = "insert"
        /\ txn[w].order = SnapTwo
        /\ orders[SnapTwo.id] = NoOrder
        /\ order_line_items = <<>>
        /\ order_shipments = <<>>
        /\ order_events = EmptyBag

-----------------------------------------------------------------------------
(* Properties of the sync cycles *)

\* C29: while the poller's cycle runs (auto_sync_running is true), no manual
\* sync is in progress.
C29_OneCycleInFlight ==
    ~(auto_sync_running /\ syncs["manual"].pc # "idle")

\* the trace of a cycle that is at order i of its list, or past the list:
\* one entry per order before i, in the order of the list, and every order
\* logged as synced is in the orders table
OrdersLogged(c, n) ==
    /\ Len(c.log) >= n
    /\ \A j \in 1..n :
          /\ c.log[j].step = "order"
          /\ c.log[j].id = c.orders_list[j].id
          /\ c.log[j].ok => orders[c.log[j].id] # NoOrder

\* C30: in a poller cycle that fetched its list, the orders are reconciled one
\* after another in the order of the list, whether or not an earlier one
\* failed; the email sync is triggered after the last order and the payment
\* sync after the email sync, and then the cycle ends.
C30_CycleRunsToItsEnd ==
    LET c == syncs["auto"]
        n == Len(c.orders_list)
    IN /\ c.pc = "orders"
            => /\ c.i \in 1..(n + 1)
               /\ Len(c.log) = c.i - 1
               /\ OrdersLogged(c, c.i - 1)
       /\ c.pc = "square"
            => /\ Len(c.log) = n + 1
               /\ OrdersLogged(c, n)
               /\ c.log[n + 1].step = "gmail"
       /\ (c.pc = "idle" /\ c.orders_list # <<>>)
            => /\ Len(c.log) = n + 2
               /\ OrdersLogged(c, n)
               /\ c.log[n + 1].step = "gmail"
               /\ c.log[n + 2].step = "square"
               /\ ~auto_sync_running

\* a cycle ended whose first order failed, whose second order was reconciled,
\* and that triggered the email sync and then the payment sync
C30_FailedThenSynced ==
    LET c == syncs["auto"]
    IN /\ c.pc = "idle"
       /\ Len(c.log) = 4
       /\ ~c.log[1].ok
       /\ c.log[2].step = "order" /\ c.log[2].ok
       /\ orders[c.log[2].id] # NoOrder
       /\ c.log[3].step = "gmail"
       /\ c.log[4].step = "square"

-----------------------------------------------------------------------------
(* Properties of the administrative delete *)

\* every line item and every shipment belongs to an order of the orders table
Owned(otbl, itbl, stbl) ==
    /\ \A i \in DOMAIN itbl : otbl[itbl[i].order_id] # NoOrder
    /\ \A i \in DOMAIN stbl : otbl[stbl[i].order_id] # NoOrder

\* C31: after every reconcile and every delete_order each line item and each
\* shipment belongs to an order that exists; delete_order(o) removes the
\* order o, every line item and every shipment of o, and leaves the rows of
\* the other orders, in their order, and the other order rows as they were.
C31_DeleteCascades ==
    [][/\ Owned(orders', order_line_items', order_shipments')
       /\ response'.op = "delete_order" =>
            LET o == response'.id
            IN /\ orders' = [orders EXCEPT ![o] = NoOrder]
               /\ order_line_items' =
                    SelectSeq(order_line_items, LAMBDA r : r.order_id # o)
               /\ order_shipments' =
                    SelectSeq(order_shipments, LAMBDA r : r.order_id # o)]_vars

\* order 8 was reconciled first, order 7 second, and order 7 was deleted:
\* order 8 is there with its line item and its shipment, nothing of order 7 is
C31_DeletedNextToAnother ==
    /\ response.op = "delete_order"
    /\ response.id = <<"7">>
    /\ now = 2
    /\ orders[<<"7">>] = NoOrder
    /\ orders[<<"8">>] # NoOrder
    /\ orders[<<"8">>].updated_at = Some(0)
    /\ Len(order_line_items) = 1
    /\ Len(order_shipments) = 1

-----------------------------------------------------------------------------
(* Properties of concurrent shipment updates *)

\* C32: once the update_shipment transactions have committed, an order whose
\* shipments are all delivered has is_complete = TRUE, whatever the
\* interleaving of the transactions that delivered its last two shipments.
C32_BothDeliveredIsComplete ==
    (/\ \A w \in Workers : patching[w].pc = "idle"
     /\ AllDelivered(order_shipments, <<"7">>))
        => orders[<<"7">>].is_complete

-----------------------------------------------------------------------------
(* Properties of the re-sync of an order *)

\* the six checkpoints of an order row, their timestamps, and the payment
\* and shipping-cost columns
Ledger(o) ==
    <<[c \in valid_checkpoints |-> o[c]],
      [c \in valid_checkpoints |-> o[timestamp_field(c)]],
      o.payment_amount, o.shipping_cost>>

\* C33: a reconcile of an order that exists leaves its six checkpoints, their
\* timestamps, its payment amount and its shipping cost as they were, and so
\* its derived status; the rows of the other orders stay as they were.
C33_ResyncKeepsCheckpoints ==
    [][(/\ response'.op = "sync_order_from_b2bwave"
        /\ now' # now
        /\ orders[response'.id] # NoOrder)
        => LET o == response'.id
           IN /\ Ledger(orders'[o]) = Ledger(orders[o])
              /\ current_status(orders'[o]) = current_status(orders[o])
              /\ \A other \in OrderIds \ {o} : orders'[other] = orders[other]]_vars

\* order 7 was paid, with an amount, and reconciled again after the payment
C33_ResyncedAfterPayment ==
    /\ response.op = "sync_order_from_b2bwave"
    /\ response.id = <<"7">>
    /\ orders[<<"7">>] # NoOrder
    /\ orders[<<"7">>].payment_received
    /\ orders[<<"7">>].payment_amount # NULL
    /\ orders[<<"7">>].updated_at = Some(now - 1)
    /\ orders[<<"7">>].payment_received_at # orders[<<"7">>].updated_at

-----------------------------------------------------------------------------
(* Properties of the shipment identifier *)

\* the warehouse names fan-out can be given: those of the mapping table
WarehouseNames == {m.warehouse_name : m \in Range(warehouse_mapping)}

\* C34: distinct (order id, warehouse name) pairs have distinct shipment
\* identifiers, and after a reconcile every warehouse of the call has a
\* shipment of its own: none was skipped for the shipment of another one.
C34_ShipmentIdInjective ==
    /\ \A a, b \in OrderIds \X WarehouseNames :
            ShipmentId(a[1], a[2]) = ShipmentId(b[1], b[2]) => a = b
    /\ (response.op = "sync_order_from_b2bwave" /\ response.code = 200) =>
            \A wh \in Range(SyncLocals(warehouse_mapping, response.arg)
                                .warehouses_list) :
                \E i \in DOMAIN order_shipments :
                    /\ order_shipments[i].order_id = response.id
                    /\ order_shipments[i].warehouse = wh

-----------------------------------------------------------------------------
(* Properties of the shipment weight *)

RECURSIVE SumQuantity(_)
SumQuantity(items) ==
    IF items = <<>> THEN 0
    ELSE Head(items).quantity + SumQuantity(Tail(items))

\* the larger of two numbers
Max(a, b) == IF a >= b THEN a ELSE b

\* the carrier the request in flight was sent to: the branch of
\* calculate_order_shipping on the method selected for the group's weight
CarrierAsked(q) ==
    IF select_shipping_method(calculate_shipment_weight(q.groups[q.k].items),
                              q.groups[q.k].items) = "small_package"
    THEN "shippo" ELSE "rl"

-----------------------------------------------------------------------------
(* Properties of shipment updates that leave the status alone *)

\* the six checkpoints of an order row
CheckpointsOf(o) == [c \in valid_checkpoints |-> o[c]]

\* C36: an update_shipment call without a status parameter leaves the six
\* checkpoints of every order as they were, also when the order was set back
\* by set_order_status while all of its shipments are delivered.
C36_NonStatusPatchKeepsCheckpoints ==
    [][(response'.op = "update_shipment" /\ response'.arg = None)
        => \A o \in OrderIds :
              orders[o] # NoOrder
                => CheckpointsOf(orders'[o]) = CheckpointsOf(orders[o])]_vars

-----------------------------------------------------------------------------
(* Properties of the default rule of the status view *)

\* C37: the status derived for an order is needs_payment_link exactly when
\* its six checkpoints are all false, for every order row and for every
\* read of the view.
C37_DefaultIffNoCheckpoint ==
    /\ \A o \in OrderIds :
            orders[o] # NoOrder =>
                (current_status(orders[o]) = "needs_payment_link"
                    <=> \A c \in valid_checkpoints : ~orders[o][c])
    /\ (response.op = "get_order" /\ response.code = 200) =>
            (response.arg = "needs_payment_link"
                <=> \A c \in valid_checkpoints : ~orders[response.id][c])

\* the view was read for an order with one checkpoint set out of sequence,
\* warehouse_confirmed alone, and the read is not the default
C37_ReadWithOneCheckpointOutOfSequence ==
    /\ response.op = "get_order"
    /\ response.code = 200
    /\ \A c \in valid_checkpoints :
            orders[response.id][c] <=> c = "warehouse_confirmed"
    /\ response.arg = "needs_bol"

-----------------------------------------------------------------------------
(* Properties of what a reconcile creates *)

\* C38: the order row a reconcile creates has its six checkpoints false and
\* the derived status needs_payment_link; every shipment row that was not
\* in the table before a step has status needs_order and no tracking, weight
\* or ship method.
C38_CreatedFresh ==
    [][/\ (/\ response'.op = "sync_order_from_b2bwave"
           /\ now' # now
           /\ orders[response'.id] = NoOrder)
            => /\ orders'[response'.id] # NoOrder
               /\ \A c \in valid_checkpoints : ~orders'[response'.id][c]
               /\ current_status(orders'[response'.id]) = "needs_payment_link"
       /\ \A i \in DOMAIN order_shipments' :
            ~ShipmentExists(order_shipments, order_shipments'[i].shipment_id)
                => /\ order_shipments'[i].status = "needs_order"
                   /\ order_shipments'[i].tracking = None
                   /\ order_shipments'[i].weight = NULL
                   /\ order_shipments'[i].ship_method = None]_vars

\* order 7 and its two shipments were created by the last transaction, after
\* another order of the store had a shipment delivered
C38_CreatedNextToDelivered ==
    /\ response.op = "sync_order_from_b2bwave"
    /\ response.id = <<"7">>
    /\ orders[<<"7">>] # NoOrder
    /\ \A c \in valid_checkpoints : ~orders[<<"7">>][c]
    /\ Cardinality(ShipmentsOf(order_shipments, <<"7">>)) = 2
    /\ \A i \in ShipmentsOf(order_shipments, <<"7">>) :
            /\ order_shipments[i].created_at = Some(now - 1)
            /\ order_shipments[i].status = "needs_order"
    /\ \E i \in DOMAIN order_shipments : order_shipments[i].status = "delivered"

-----------------------------------------------------------------------------
(* Properties of concurrent reconciles of one order *)

\* the rows of order_line_items a reconcile of the snapshot leaves
SnapshotRows(order) ==
    [i \in DOMAIN order.order_products |->
        LineItemRow(warehouse_mapping, order.id,
                    ExtractLineItems(order.order_products)[i])]

\* C39: whatever the interleaving of the reconcile calls for one order, all
\* with the same snapshot, the committed line items of the order are the
\* items of the snapshot, each once, in their order (or none before the
\* first commit).
C39_LineItemsOnceEach ==
    \A order \in {SnapTwo, SnapUnrouted} :
        \/ /\ orders[order.id] = NoOrder
           /\ RowsOf(order_line_items, order.id) = <<>>
        \/ /\ orders[order.id] # NoOrder
           /\ RowsOf(order_line_items, order.id) = SnapshotRows(order)

\* two calls for order 8 with the same snapshot were in flight together: one
\* waited for the other, and both have committed
C39_BothCommittedSameSnapshot ==
    /\ \A w \in {1, 2} :
            /\ txn[w].pc = "idle"
            /\ txn[w].outcome = "ok"
            /\ txn[w].order = SnapUnrouted
    /\ txn[1].waited \/ txn[2].waited
    /\ RowsOf(order_line_items, SnapUnrouted.id) = SnapshotRows(SnapUnrouted)

====
